---- MODULE Spec2Model ----
(***************************************************************************)
(* Streaming tool-call reassembly, name mapping and tool-call dispatch of  *)
(* MCP CLI, modelled from the diagnostics and example scripts.             *)
(*                                                                         *)
(* Each component has its own specification over the shared variables:     *)
(*   SpecCollect      the streaming collector (test_streaming_call)        *)
(*   SpecChain        the dispatch loop of the chained diagnostic          *)
(*   SpecRoundTrip    the dispatch loop of the round-trip example          *)
(*   SpecToolManager  the round trip through ToolManager                   *)
(*   SpecCli          the CLI diagnostic with argument validation          *)
(*   SpecAdapt        the tool catalog adapter and its caller              *)
(*   SpecModelManager the methods of ModelManager                          *)
(*   SpecProvider     the "provider" command on a ModelManager             *)
(*   SpecModelCommand the "model" command on a ProviderConfig              *)
(*   SpecLoad         construction of a configuration object on a file     *)
(*   SpecPing         the "ping" command                                   *)
(* The variables of the other components keep their idle values.           *)
(*                                                                         *)
(* Text that the code inspects character by character (the JSON-encoded    *)
(* arguments of a tool call) is a sequence of one-character strings; text  *)
(* that is only concatenated or compared (names, ids, messages) is a       *)
(* string.                                                                 *)
(***************************************************************************)
EXTENDS Integers, Sequences, FiniteSets, TLC

(***************************************************************************)
(* Bounds                                                                  *)
(***************************************************************************)
MaxChunks == 3

MaxBatch == 3

MaxCliCalls == 2

MaxTools == 3

MaxOps == 3

MaxServers == 2

MaxTargets == 2

(***************************************************************************)
(* JSON values and json.loads                                              *)
(***************************************************************************)
NoFields == [k \in {} |-> 0]

JNull == [kind |-> "null", str |-> "", fields |-> NoFields]

JStr(s) == [kind |-> "string", str |-> s, fields |-> NoFields]

JNum(s) == [kind |-> "number", str |-> s, fields |-> NoFields]

JArr(items) == [kind |-> "array", str |-> "", fields |-> items]

JObj(members) == [kind |-> "object", str |-> "", fields |-> members]

EmptyObject == JObj(NoFields)

Whitespace == {" "}

Digits == {"0", "1"}

\* str.strip() leaves nothing
IsBlank(t) == \A i \in 1..Len(t) : t[i] \in Whitespace

RECURSIVE SkipWs(_, _)
SkipWs(t, i) == IF i <= Len(t) /\ t[i] \in Whitespace THEN SkipWs(t, i + 1) ELSE i

RECURSIVE Flatten(_)
\* the characters of a sequence of one-character strings as one string
Flatten(t) == IF t = <<>> THEN "" ELSE Head(t) \o Flatten(Tail(t))

RECURSIVE ScanDigits(_, _)
ScanDigits(t, i) == IF i <= Len(t) /\ t[i] \in Digits THEN ScanDigits(t, i + 1) ELSE i

RECURSIVE ScanString(_, _)
\* position of the closing quote of a string opened before i, 0 if unterminated
ScanString(t, i) ==
    IF i > Len(t) THEN 0
    ELSE IF t[i] = "\"" THEN i
    ELSE ScanString(t, i + 1)

JFail == [ok |-> FALSE, val |-> JNull, pos |-> 0]

JOk(v, p) == [ok |-> TRUE, val |-> v, pos |-> p]

RECURSIVE ParseValue(_, _)
RECURSIVE ParseMembers(_, _, _)
RECURSIVE ParseItems(_, _, _)
\* one JSON value starting at position i; pos is the position after it
\* (the character "n" stands for the literal null)
ParseValue(t, i) ==
    IF i > Len(t) THEN JFail
    ELSE IF t[i] = "{" THEN
        LET j == SkipWs(t, i + 1) IN
        IF j <= Len(t) /\ t[j] = "}" THEN JOk(EmptyObject, j + 1)
        ELSE ParseMembers(t, j, NoFields)
    ELSE IF t[i] = "[" THEN
        LET j == SkipWs(t, i + 1) IN
        IF j <= Len(t) /\ t[j] = "]" THEN JOk(JArr(<<>>), j + 1)
        ELSE ParseItems(t, j, <<>>)
    ELSE IF t[i] = "\"" THEN
        LET j == ScanString(t, i + 1) IN
        IF j = 0 THEN JFail ELSE JOk(JStr(Flatten(SubSeq(t, i + 1, j - 1))), j + 1)
    ELSE IF t[i] \in Digits THEN
        LET j == ScanDigits(t, i) IN
        \* a leading zero is a number by itself: "01" is extra data
        IF t[i] = "0" THEN JOk(JNum("0"), i + 1)
        ELSE JOk(JNum(Flatten(SubSeq(t, i, j - 1))), j)
    ELSE IF t[i] = "n" THEN JOk(JNull, i + 1)
    ELSE JFail

\* "key": value pairs up to the closing brace; i is at the first key
ParseMembers(t, i, acc) ==
    IF i > Len(t) \/ t[i] # "\"" THEN JFail
    ELSE
        LET j == ScanString(t, i + 1) IN
        IF j = 0 THEN JFail
        ELSE
            LET key == Flatten(SubSeq(t, i + 1, j - 1))
                c == SkipWs(t, j + 1)
            IN
            IF c > Len(t) \/ t[c] # ":" THEN JFail
            ELSE
                LET v == ParseValue(t, SkipWs(t, c + 1)) IN
                IF ~v.ok THEN JFail
                ELSE
                    LET e == SkipWs(t, v.pos)
                        more == [k \in (DOMAIN acc) \cup {key} |->
                                    IF k = key THEN v.val ELSE acc[k]]
                    IN
                    IF e > Len(t) THEN JFail
                    ELSE IF t[e] = "}" THEN JOk(JObj(more), e + 1)
                    ELSE IF t[e] = "," THEN ParseMembers(t, SkipWs(t, e + 1), more)
                    ELSE JFail

\* items up to the closing bracket; i is at the first item
ParseItems(t, i, acc) ==
    LET v == ParseValue(t, i) IN
    IF ~v.ok THEN JFail
    ELSE
        LET e == SkipWs(t, v.pos)
            more == Append(acc, v.val)
        IN
        IF e > Len(t) THEN JFail
        ELSE IF t[e] = "]" THEN JOk(JArr(more), e + 1)
        ELSE IF t[e] = "," THEN ParseItems(t, SkipWs(t, e + 1), more)
        ELSE JFail

\* json.loads(t): a value surrounded by whitespace and nothing else;
\* ok = FALSE is json.JSONDecodeError
JsonLoads(t) ==
    LET v == ParseValue(t, SkipWs(t, 1)) IN
    IF v.ok /\ SkipWs(t, v.pos) = Len(t) + 1 THEN v ELSE JFail

(***************************************************************************)
(* State                                                                   *)
(***************************************************************************)
VARIABLES
    tool_calls,     \* streaming: the tool calls accumulated so far
    delivered,      \* streaming: every tool-call delta received, in arrival order
    nchunks,        \* streaming: len(all_chunks)
    cpc,            \* streaming: "streaming", "returned", "processed"
    stream_error,   \* streaming: the chunk iterator raised
    batch,          \* dispatch: the completed tool calls to dispatch
    idx,            \* dispatch: position of the loop over the batch
    traces,         \* dispatch: the traces appended so far (diagnostics)
    execlog,        \* dispatch: every invocation of the tool executor
    messages,       \* dispatch: the transcript appended so far
    results,        \* dispatch: outcome per call in process_tool_calls
    raised,         \* dispatch: the exception that left the dispatching code
    trace_validation, \* dispatch: the CLI diagnostic validates before executing
    dpc,            \* dispatch: "idle", "running", "processing", "done", "raised"
    tool_defs,      \* catalog: the tool definitions of the tool manager
    openai_tools,   \* catalog: chat_context.openai_tools
    tool_name_mapping, \* catalog: chat_context.tool_name_mapping
    apc,            \* catalog: "idle", "start", "loaded", "failed"
    providers,      \* config: self.providers of the configuration object
    disk,           \* config: the configuration file
    cached,         \* config: _cached_client, _cached_provider, _cached_model
    context,        \* config: the context dict of the commands
    console,        \* config: the lines the last command printed
    last,           \* config: the last operation, its arguments and its result
    mm_raised,      \* config: the exception the last operation raised, "" if none
    nclients,       \* config: the number of LLM clients created so far
    nops,           \* config: the number of operations so far
    mpc,            \* config: "idle", "ready"
    cfg_file,       \* load: the configuration file at self._path
    source_file,    \* load: the file as the last constructor found it
    loaded,         \* load: self.providers of the object constructed last
    user_set,       \* load: the (section, key) pairs the user has set
    load_raised,    \* load: the exception that left the constructor, "" if none
    nloads,         \* load: the number of constructor and setter calls so far
    lpc,            \* load: "idle", "start", "loaded", "changed", "raised"
    streams,        \* ping: len(tm.get_streams())
    server_infos,   \* ping: the names of tm.get_server_info()
    server_names,   \* ping: the explicit index -> name map, empty for None
    targets,        \* ping: the filters of the call
    tasks,          \* ping: the tasks created, with the state of each
    ping_results,   \* ping: what asyncio.gather returned
    ping_returned,  \* ping: "", "True", "False" or "raised"
    ppc             \* ping: "idle", "start", "gathering", "done"

collectVars == <<tool_calls, delivered, nchunks, cpc, stream_error>>

dispatchVars ==
    <<batch, idx, traces, execlog, messages, results, raised, trace_validation, dpc>>

adaptVars == <<tool_defs, openai_tools, tool_name_mapping, apc>>

managerVars ==
    <<providers, disk, cached, context, console, last, mm_raised, nclients, nops, mpc>>

loadVars == <<cfg_file, source_file, loaded, user_set, load_raised, nloads, lpc>>

pingVars ==
    <<streams, server_infos, server_names, targets, tasks, ping_results,
      ping_returned, ppc>>

vars == <<collectVars, dispatchVars, adaptVars, managerVars, loadVars, pingVars>>

\* what the actions of one component leave alone
notCollect == <<dispatchVars, adaptVars, managerVars, loadVars, pingVars>>

notDispatch == <<collectVars, adaptVars, managerVars, loadVars, pingVars>>

notAdapt == <<collectVars, dispatchVars, managerVars, loadVars, pingVars>>

notManager == <<collectVars, dispatchVars, adaptVars, loadVars, pingVars>>

notLoad == <<collectVars, dispatchVars, adaptVars, managerVars, pingVars>>

notPing == <<collectVars, dispatchVars, adaptVars, managerVars, loadVars>>

(***************************************************************************)
(* Values of the provider configuration                                    *)
(***************************************************************************)
\* None as the value of a configuration key
PyNone == "<None>"

\* a key that a dict does not have
Absent == "<absent>"

\* the configuration file: missing, not JSON, or a JSON object of sections
Missing == [kind |-> "missing", data |-> NoFields]

Corrupt == [kind |-> "corrupt", data |-> NoFields]

File(data) == [kind |-> "dict", data |-> data]

\* an LLM client: the provider and model it was created for and its
\* creation number; made = FALSE is None
NoClient == [made |-> FALSE, provider |-> "", model |-> "", serial |-> 0]

Client(provider, model, serial) ==
    [made |-> TRUE, provider |-> provider, model |-> model, serial |-> serial]

NoCache == [client |-> NoClient, provider |-> PyNone, model |-> PyNone]

\* a context without "provider", "model", "client", "model_manager" and
\* "provider_config"
EmptyContext ==
    [provider |-> Absent, model |-> Absent, client |-> NoClient,
     model_manager |-> FALSE, provider_config |-> FALSE]

\* the answer to a probe completion: the call raised ("client_raise" from
\* get_llm_client, "probe_raise" from create_completion), or returned a dict
\* with an "error" flag and a "response", or something that is no dict
Probe(kind, error, response) == [kind |-> kind, error |-> error, response |-> response]

NoProbe == Probe("", FALSE, Absent)

\* an operation on the configuration: its name, its arguments, what the
\* environment answered (env, probe) and the client it returned
Operation(op, provider, model, key, val, env) ==
    [op |-> op, provider |-> provider, model |-> model, key |-> key, val |-> val,
     env |-> env, client |-> NoClient, probe |-> NoProbe]

NoOperation == Operation("", "", "", "", "", "")

(***************************************************************************)
(* Streaming collector: test_streaming_call                                *)
(***************************************************************************)
\* a tool-call delta of a chunk: the keys it has and their values
Delta(hasId, id, fn, hasName, name, hasArgs, args) ==
    [hasId |-> hasId, id |-> id, fn |-> fn, hasName |-> hasName, name |-> name,
     hasArgs |-> hasArgs, args |-> args]

CallIds == {"A", "B"}

DeltasOf(id) ==
    { Delta(TRUE, id, TRUE, TRUE, "read_", FALSE, <<>>),
      Delta(TRUE, id, TRUE, TRUE, "query", TRUE, <<"{">>),
      Delta(TRUE, id, TRUE, FALSE, "", TRUE, <<"}">>),
      Delta(TRUE, id, TRUE, FALSE, "", TRUE, <<" ">>),
      Delta(TRUE, id, TRUE, FALSE, "", TRUE, <<>>),
      Delta(TRUE, id, FALSE, FALSE, "", FALSE, <<>>) }

AnonymousDelta == Delta(FALSE, "", TRUE, TRUE, "list", FALSE, <<>>)

Deltas == DeltasOf("A") \cup DeltasOf("B") \cup {AnonymousDelta}

\* the tool_calls lists of the chunks a stream may deliver; <<>> is a chunk
\* without tool calls (text only)
Chunks ==
    {<<>>} \cup { <<d>> : d \in Deltas }
    \cup { << Delta(TRUE, "A", TRUE, TRUE, "query", TRUE, <<"{">>),
              Delta(TRUE, "B", TRUE, TRUE, "query", TRUE, <<"{">>) >> }

\* tc.get("id", f"unknown_{len(tool_calls)}")
TcId(tcs, d) == IF d.hasId THEN d.id ELSE "unknown_" \o ToString(Len(tcs))

\* a lookup that takes the most recent call whatever its id
FindExistingLatest(tcs, id) == Len(tcs)

\* the first accumulated call with this id, 0 when there is none
FindExisting(tcs, id) ==
    IF \E i \in 1..Len(tcs) : tcs[i].id = id
    THEN CHOOSE i \in 1..Len(tcs) :
            tcs[i].id = id /\ \A j \in 1..(i - 1) : tcs[j].id # id
    ELSE 0

NewToolCall(id, d) ==
    [id |-> id,
     type |-> "function",
     name |-> IF d.fn /\ d.hasName THEN d.name ELSE "",
     argkind |-> "str",
     arguments |-> IF d.fn /\ d.hasArgs THEN d.args ELSE <<>>]

UpdateToolCall(tc, d) ==
    IF ~d.fn THEN tc
    ELSE [tc EXCEPT !.name = IF d.hasName THEN @ \o d.name ELSE @,
                    !.arguments = IF d.hasArgs THEN @ \o d.args ELSE @]

\* a merge that opens a new call for every delta
MergeDeltaAlwaysNew(tcs, d) == Append(tcs, NewToolCall(TcId(tcs, d), d))

\* the body of "for tc in chunk['tool_calls']" for one delta
MergeDelta(tcs, d) ==
    LET id == TcId(tcs, d)
        i == FindExisting(tcs, id)
    IN
    IF i = 0 THEN Append(tcs, NewToolCall(id, d))
    ELSE [tcs EXCEPT ![i] = UpdateToolCall(@, d)]

RECURSIVE MergeChunk(_, _)
MergeChunk(tcs, chunk) ==
    IF chunk = <<>> THEN tcs
    ELSE MergeChunk(MergeDelta(tcs, Head(chunk)), Tail(chunk))

\* one iteration of "async for chunk in client.create_completion(...)"
ReceiveChunk ==
    /\ cpc = "streaming"
    /\ nchunks < MaxChunks
    /\ \E chunk \in Chunks :
        /\ tool_calls' = MergeChunk(tool_calls, chunk)
        /\ delivered' = delivered \o chunk
    /\ nchunks' = nchunks + 1
    /\ UNCHANGED <<cpc, stream_error, notCollect>>

\* the iterator is exhausted: return tool_calls
StreamEnds ==
    /\ cpc = "streaming"
    /\ cpc' = "returned"
    /\ UNCHANGED <<tool_calls, delivered, nchunks, stream_error, notCollect>>

\* the iterator raises: "except Exception" prints and the function goes on
\* to return what it has accumulated
StreamRaises ==
    /\ cpc = "streaming"
    /\ cpc' = "returned"
    /\ stream_error' = TRUE
    /\ UNCHANGED <<tool_calls, delivered, nchunks, notCollect>>

(***************************************************************************)
(* Non-streaming call: test_regular_call                                   *)
(***************************************************************************)
RawToolCall(name, argkind, text) ==
    [id |-> "A", type |-> "function", name |-> name, argkind |-> argkind,
     arguments |-> text]

\* fully materialised tool calls of a response; argkind says whether the
\* "arguments" key is a string, None ("none") or missing ("absent")
RawToolCalls ==
    { RawToolCall("read_query", "str", <<"{", "}">>),
      RawToolCall("read_query", "str", <<>>),
      RawToolCall("read_query", "str", <<" ">>),
      RawToolCall("read_query", "str", <<"{">>),
      RawToolCall("read_query", "none", <<>>),
      RawToolCall("read_query", "absent", <<>>),
      RawToolCall("", "none", <<>>) }

\* result.get("tool_calls", []), or [] when the call raised
RegularCall ==
    /\ cpc = "streaming"
    /\ nchunks = 0
    /\ \E tcs \in {<<>>} \cup { <<tc>> : tc \in RawToolCalls } : tool_calls' = tcs
    /\ cpc' = "returned"
    /\ UNCHANGED <<delivered, nchunks, stream_error, notCollect>>

(***************************************************************************)
(* Structure check and repair of collected tool calls:                     *)
(* _validate_streaming_tool_call, _fix_tool_call_structure                 *)
(***************************************************************************)
ValidateStreamingToolCall(tc) ==
    /\ tc.name # ""
    /\ \/ tc.argkind = "absent"
       \/ /\ tc.argkind = "str"
          /\ IsBlank(tc.arguments) \/ JsonLoads(tc.arguments).ok

\* ok = FALSE is the None the function returns
FixToolCallStructure(tc) ==
    LET fixed == IF tc.argkind \in {"absent", "none"}
                 THEN [tc EXCEPT !.argkind = "str", !.arguments = <<"{", "}">>]
                 ELSE tc
    IN
    IF tc.name = "" THEN [ok |-> FALSE, tc |-> tc]
    ELSE [ok |-> ValidateStreamingToolCall(fixed), tc |-> fixed]

ProcessToolCall(tc) ==
    IF ValidateStreamingToolCall(tc) THEN tc
    ELSE IF FixToolCallStructure(tc).ok THEN FixToolCallStructure(tc).tc
    ELSE tc

\* the validation loop of _test_streaming_handler_processing
HandlerProcessing ==
    /\ cpc = "returned"
    /\ tool_calls' = [i \in 1..Len(tool_calls) |-> ProcessToolCall(tool_calls[i])]
    /\ cpc' = "processed"
    /\ UNCHANGED <<delivered, nchunks, stream_error, notCollect>>

CollectStart ==
    /\ tool_calls = <<>>
    /\ delivered = <<>>
    /\ nchunks = 0
    /\ cpc = "streaming"
    /\ stream_error = FALSE

DispatchIdle ==
    /\ batch = <<>>
    /\ idx = 1
    /\ traces = <<>>
    /\ execlog = <<>>
    /\ messages = <<>>
    /\ results = <<>>
    /\ raised = ""
    /\ trace_validation = FALSE
    /\ dpc = "idle"

AdaptIdle ==
    /\ tool_defs = <<>>
    /\ openai_tools = <<>>
    /\ tool_name_mapping = <<>>
    /\ apc = "idle"

\* no configuration object has been constructed
ManagerIdle ==
    /\ providers = NoFields
    /\ disk = Missing
    /\ cached = NoCache
    /\ context = EmptyContext
    /\ console = <<>>
    /\ last = NoOperation
    /\ mm_raised = ""
    /\ nclients = 0
    /\ nops = 0
    /\ mpc = "idle"

\* no configuration object is being constructed on a file of its own
LoadIdle ==
    /\ cfg_file = Missing
    /\ source_file = Missing
    /\ loaded = NoFields
    /\ user_set = {}
    /\ load_raised = ""
    /\ nloads = 0
    /\ lpc = "idle"

\* no ping command is running
PingIdle ==
    /\ streams = 0
    /\ server_infos = <<>>
    /\ server_names = NoFields
    /\ targets = <<>>
    /\ tasks = <<>>
    /\ ping_results = <<>>
    /\ ping_returned = ""
    /\ ppc = "idle"

InitCollect ==
    CollectStart /\ DispatchIdle /\ AdaptIdle /\ ManagerIdle /\ LoadIdle /\ PingIdle

NextCollect ==
    \/ ReceiveChunk
    \/ StreamEnds
    \/ StreamRaises
    \/ RegularCall
    \/ HandlerProcessing

SpecCollect == InitCollect /\ [][NextCollect]_vars

(***************************************************************************)
(* Properties of the streaming collector                                   *)
(***************************************************************************)
RECURSIVE NameFragments(_, _)
\* the name fragments delivered for call id, concatenated in arrival order
NameFragments(ds, id) ==
    IF ds = <<>> THEN ""
    ELSE LET d == Head(ds) IN
         (IF d.hasId /\ d.id = id /\ d.fn /\ d.hasName THEN d.name ELSE "")
            \o NameFragments(Tail(ds), id)

RECURSIVE ArgumentFragments(_, _)
\* the arguments fragments delivered for call id, concatenated in arrival order
ArgumentFragments(ds, id) ==
    IF ds = <<>> THEN <<>>
    ELSE LET d == Head(ds) IN
         (IF d.hasId /\ d.id = id /\ d.fn /\ d.hasArgs THEN d.args ELSE <<>>)
            \o ArgumentFragments(Tail(ds), id)

Streamed == delivered # <<>>

\* C1: once the collector has finalized a stream, every tool call whose
\* delivered arguments text is empty, whitespace only or was never supplied
\* has arguments_json equal to the two characters "{}".
C1_EmptyArgumentsNormalized ==
    (cpc # "streaming" /\ Streamed) =>
        \A i \in 1..Len(tool_calls) :
            (tool_calls[i].id \in CallIds
                /\ IsBlank(ArgumentFragments(delivered, tool_calls[i].id)))
              => (tool_calls[i].argkind = "str"
                    /\ tool_calls[i].arguments = <<"{", "}">>)

\* C2: for a stream that interleaves deltas of call ids A and B, the call
\* accumulated for each id has the name and the arguments that are the
\* concatenation of exactly that id's fragments in arrival order.
C2_IndependentAccumulation ==
    \A i \in 1..Len(tool_calls) :
        (Streamed /\ tool_calls[i].id \in CallIds) =>
            /\ tool_calls[i].name = NameFragments(delivered, tool_calls[i].id)
            /\ tool_calls[i].arguments
                    = ArgumentFragments(delivered, tool_calls[i].id)

\* A, then B, then A again, each with an arguments fragment, and A complete
C2_Witness ==
    /\ cpc = "returned"
    /\ Len(delivered) = 3
    /\ delivered[1].id = "A" /\ delivered[2].id = "B" /\ delivered[3].id = "A"
    /\ delivered[1].args = <<"{">> /\ delivered[2].args = <<"{">>
    /\ delivered[3].args = <<"}">>
    /\ \E i \in 1..Len(tool_calls) :
        tool_calls[i].id = "A" /\ tool_calls[i].arguments = <<"{", "}">>
            /\ tool_calls[i].name = "query"

\* C13: when the chunk stream fails while it is being collected, the
\* collector does not return to its caller with the tool calls accumulated
\* so far as though the stream had completed.
C13_StreamFailurePropagates ==
    stream_error => cpc \notin {"returned", "processed"}

\* the call ids that appeared in the stream
AppearedIds == { delivered[k].id : k \in { j \in 1..Len(delivered) : delivered[j].hasId } }

\* the positions of the result that hold a call with this id
CompletedFor(id) == { i \in 1..Len(tool_calls) : tool_calls[i].id = id }

\* C14: once a stream of chunks has been consumed, the result holds exactly
\* one tool call for every call id that appeared in the stream and none for
\* an id that did not appear, and that call holds all fragments delivered
\* under its id.
C14_OneCallPerCallId ==
    (cpc \in {"returned", "processed"} /\ nchunks > 0) =>
        \A id \in CallIds :
            /\ id \in AppearedIds => Cardinality(CompletedFor(id)) = 1
            /\ id \notin AppearedIds => CompletedFor(id) = {}
            /\ \A i \in CompletedFor(id) :
                    /\ tool_calls[i].name = NameFragments(delivered, id)
                    /\ tool_calls[i].arguments = ArgumentFragments(delivered, id)

\* call A arrived in two fragments with call B after them, the stream ended
\* and the result went through the handler
C14_Witness ==
    /\ cpc = "processed"
    /\ ~stream_error
    /\ Len(delivered) = 3
    /\ delivered[1].id = "A" /\ delivered[1].name = "read_"
    /\ delivered[2].id = "A" /\ delivered[2].name = "query"
    /\ delivered[3].id = "B" /\ delivered[3].hasId
    /\ Len(tool_calls) = 2
    /\ tool_calls[1].id = "A" /\ tool_calls[1].name = "read_query"
    /\ tool_calls[2].id = "B"

(***************************************************************************)
(* Completed tool calls handed to a dispatcher                             *)
(***************************************************************************)
TxtEmptyObject == <<"{", "}">>

TxtQuery == <<"{", "\"", "q", "u", "e", "r", "y", "\"", ":", "\"", "s", "\"", "}">>

TxtIncomplete == <<"{", "\"", "q", "u", "e", "r", "y", "\"", ":", "\"", "s">>

TxtArray == <<"[", "1", "]">>

\* the "function" part of a tool call; argkind "none" is arguments = None
Call(name, argkind, text) == [name |-> name, argkind |-> argkind, arguments |-> text]

Calls ==
    { Call("stdio_list_tables", "str", TxtEmptyObject),
      Call("stdio_read_query", "str", TxtQuery),
      Call("stdio_read_query", "str", TxtIncomplete),
      Call("stdio_read_query", "str", TxtArray),
      Call("stdio_unknown_tool", "str", <<>>),
      Call("stdio_list_tables", "none", <<>>) }

Batches == UNION { [1..n -> Calls] : n \in 1..MaxBatch }

\* tool_call["id"] of the i-th call of the batch
CallId(i) == "call_" \o ToString(i)

name_mapping ==
    [n \in {"stdio_list_tables", "stdio_read_query"} |->
        IF n = "stdio_list_tables" THEN "stdio.list_tables" ELSE "stdio.read_query"]

\* name_mapping.get(llm_tool_name) without the fallback
ResolveNoFallback(mapping, safe_name) ==
    IF safe_name \in DOMAIN mapping THEN mapping[safe_name] ELSE ""

\* name_mapping.get(llm_tool_name, llm_tool_name)
Resolve(mapping, safe_name) ==
    IF safe_name \in DOMAIN mapping THEN mapping[safe_name] ELSE safe_name

\* what the external tool executor does with one invocation: it returns a
\* successful result, returns a result with an error, or raises
ExecOutcomes == {"ok", "error", "raise"}

\* result.error, or str(e) of the exception
ExecErrorText(r) ==
    IF r = "error" THEN "tool execution failed"
    ELSE IF r = "raise" THEN "timed out"
    ELSE ""

Invocation(i, name, arguments, r) ==
    [call |-> i, name |-> name, arguments |-> arguments, outcome |-> r]

DispatchStart ==
    /\ batch \in Batches
    /\ idx = 1
    /\ traces = <<>>
    /\ execlog = <<>>
    /\ messages = <<>>
    /\ results = <<>>
    /\ raised = ""
    /\ trace_validation = FALSE
    /\ dpc = "running"

CollectIdle ==
    /\ tool_calls = <<>>
    /\ delivered = <<>>
    /\ nchunks = 0
    /\ cpc = "idle"
    /\ stream_error = FALSE

(***************************************************************************)
(* Dispatch loop of the chained diagnostic:                                *)
(* _test_streaming_chain_simulation                                        *)
(***************************************************************************)
\* "Parse arguments like streaming system does": a blank string and None
\* become {}, and so does text that json.loads rejects
ChainParseArguments(tc) ==
    IF tc.argkind = "str" THEN
        IF IsBlank(tc.arguments) THEN EmptyObject
        ELSE IF JsonLoads(tc.arguments).ok THEN JsonLoads(tc.arguments).val
        ELSE EmptyObject
    ELSE EmptyObject

ChainTrace(i, name, arguments, r) ==
    [step |-> i + 2,
     tool_name |-> name,
     arguments |-> arguments,
     success |-> (r = "ok"),
     error |-> ExecErrorText(r),
     tool_call_id |-> CallId(i)]

\* a loop that stays on a call whose first execution failed and executes it
\* once more
ChainStepRetrying ==
    /\ dpc = "running"
    /\ idx <= Len(batch)
    /\ LET tc == batch[idx]
           execution_tool_name == Resolve(name_mapping, tc.name)
           arguments == ChainParseArguments(tc)
           first == \A k \in 1..Len(execlog) : execlog[k].call # idx
       IN
       \E r \in ExecOutcomes :
          /\ execlog' = Append(execlog, Invocation(idx, execution_tool_name, arguments, r))
          /\ IF r # "ok" /\ first
             THEN UNCHANGED <<traces, idx>>
             ELSE /\ traces' = Append(traces,
                            ChainTrace(idx, execution_tool_name, arguments, r))
                  /\ idx' = idx + 1
    /\ UNCHANGED <<batch, messages, results, raised, trace_validation, dpc, notDispatch>>

\* one iteration of "for i, tool_call in enumerate(streaming_tool_calls)"
ChainStep ==
    /\ dpc = "running"
    /\ idx <= Len(batch)
    /\ LET tc == batch[idx]
           execution_tool_name == Resolve(name_mapping, tc.name)
           arguments == ChainParseArguments(tc)
       IN
       \E r \in ExecOutcomes :
          /\ execlog' = Append(execlog, Invocation(idx, execution_tool_name, arguments, r))
          /\ traces' = Append(traces, ChainTrace(idx, execution_tool_name, arguments, r))
    /\ idx' = idx + 1
    /\ UNCHANGED <<batch, messages, results, raised, trace_validation, dpc, notDispatch>>

\* the loop is over
ChainReturn ==
    /\ dpc = "running"
    /\ idx > Len(batch)
    /\ dpc' = "done"
    /\ UNCHANGED <<batch, idx, traces, execlog, messages, results, raised, trace_validation,
                   notDispatch>>

InitChain ==
    CollectIdle /\ DispatchStart /\ AdaptIdle /\ ManagerIdle /\ LoadIdle /\ PingIdle

NextChain == ChainStep \/ ChainReturn

SpecChain == InitChain /\ [][NextChain]_vars

(***************************************************************************)
(* Transcript messages                                                     *)
(***************************************************************************)
\* {"role": "assistant", "content": None, "tool_calls": [...]}; ids are the
\* ids of the tool calls it carries
AssistantMessage(ids) ==
    [role |-> "assistant", name |-> "", producer |-> 0, ok |-> TRUE,
     tool_call_id |-> "", tool_calls |-> ids]

\* {"role": "tool", "name": ..., "content": ..., "tool_call_id": ...};
\* producer is the position in the batch of the call whose execution
\* returned the content, ok whether that execution succeeded
ToolMessage(name, producer, ok, id) ==
    [role |-> "tool", name |-> name, producer |-> producer, ok |-> ok,
     tool_call_id |-> id, tool_calls |-> <<>>]

(***************************************************************************)
(* Dispatch loop of the round-trip example: round_trip, run_tool_call      *)
(***************************************************************************)
\* json.loads(fn.get("arguments", "{}")): "" when it returns, else the
\* exception it raises
RunToolCallParseError(tc) ==
    IF tc.argkind = "none" THEN "TypeError"
    ELSE IF JsonLoads(tc.arguments).ok THEN ""
    ELSE "JSONDecodeError"

\* the exception run_tool_call raises after the executor answered with r
RunToolCallRaises(r) ==
    IF r = "raise" THEN "ExecutorException"
    ELSE IF r = "error" THEN "RuntimeError"
    ELSE ""

\* one iteration of "for tc in completion['tool_calls']"
RoundTripStep ==
    /\ dpc = "running"
    /\ idx <= Len(batch)
    /\ LET tc == batch[idx]
           announced == Append(messages, AssistantMessage(<<CallId(idx)>>))
       IN
       IF RunToolCallParseError(tc) # ""
       THEN /\ raised' = RunToolCallParseError(tc)
            /\ dpc' = "raised"
            /\ messages' = announced
            /\ UNCHANGED <<execlog, idx>>
       ELSE \E r \in ExecOutcomes :
            /\ execlog' = Append(execlog,
                    Invocation(idx, tc.name, JsonLoads(tc.arguments).val, r))
            /\ IF RunToolCallRaises(r) # ""
               THEN /\ raised' = RunToolCallRaises(r)
                    /\ dpc' = "raised"
                    /\ messages' = announced
                    /\ idx' = idx
               ELSE /\ messages' = Append(announced,
                            ToolMessage(tc.name, idx, TRUE, CallId(idx)))
                    /\ idx' = idx + 1
                    /\ UNCHANGED <<raised, dpc>>
    /\ UNCHANGED <<batch, traces, results, trace_validation, notDispatch>>

\* every tool call of the completion was answered: "continue"
RoundTripContinue ==
    /\ dpc = "running"
    /\ idx > Len(batch)
    /\ dpc' = "done"
    /\ UNCHANGED <<batch, idx, traces, execlog, messages, results, raised, trace_validation,
                   notDispatch>>

InitRoundTrip ==
    CollectIdle /\ DispatchStart /\ AdaptIdle /\ ManagerIdle /\ LoadIdle /\ PingIdle

NextRoundTrip == RoundTripStep \/ RoundTripContinue

SpecRoundTrip == InitRoundTrip /\ [][NextRoundTrip]_vars

(***************************************************************************)
(* Round trip through ToolManager: main of mcp_round_trip_with_toolmanager *)
(***************************************************************************)
Pending == [done |-> FALSE, producer |-> 0, resolved_name |-> "", success |-> FALSE,
            error |-> ""]

Outcome(i, name, success, error) ==
    [done |-> TRUE, producer |-> i, resolved_name |-> name, success |-> success,
     error |-> error]

\* the first call of the batch whose arguments json.loads rejects in the
\* loop that prints the calls, 0 when there is none
FirstUnprintable(b) ==
    IF \E i \in 1..Len(b) : RunToolCallParseError(b[i]) # ""
    THEN CHOOSE i \in 1..Len(b) :
            /\ RunToolCallParseError(b[i]) # ""
            /\ \A j \in 1..(i - 1) : RunToolCallParseError(b[j]) = ""
    ELSE 0

\* "for tc in tool_calls": resolve and print every call, then hand the
\* batch to tm.process_tool_calls
TmInspect ==
    /\ dpc = "running"
    /\ IF FirstUnprintable(batch) # 0
       THEN /\ raised' = RunToolCallParseError(batch[FirstUnprintable(batch)])
            /\ dpc' = "raised"
            /\ UNCHANGED results
       ELSE /\ results' = [i \in 1..Len(batch) |-> Pending]
            /\ dpc' = "processing"
            /\ UNCHANGED raised
    /\ UNCHANGED <<batch, idx, traces, execlog, messages, trace_validation, notDispatch>>

\* the parameters a tool declares as required
RequiredParameters(resolved_name) ==
    IF resolved_name = "stdio.read_query" THEN {"query"} ELSE {}

\* an argument that counts as missing: absent, null or the empty string
MissingArgument(arguments, p) ==
    \/ p \notin DOMAIN arguments.fields
    \/ arguments.fields[p].kind = "null"
    \/ arguments.fields[p].kind = "string" /\ arguments.fields[p].str = ""

\* process_tool_calls works on one call of the batch: resolve, parse,
\* coerce, validate, execute; the calls may complete in any order
TmExecute(i) ==
    /\ dpc = "processing"
    /\ ~results[i].done
    /\ LET tc == batch[i]
           resolved_name == Resolve(name_mapping, tc.name)
           parsed == JsonLoads(tc.arguments)
           arguments == IF parsed.val.kind = "object" THEN parsed.val ELSE EmptyObject
       IN
       IF tc.argkind # "str" \/ ~parsed.ok
       THEN /\ results' = [results EXCEPT ![i] =
                    Outcome(i, resolved_name, FALSE, "JSON decode error")]
            /\ UNCHANGED execlog
       ELSE IF \E p \in RequiredParameters(resolved_name) : MissingArgument(arguments, p)
       THEN /\ results' = [results EXCEPT ![i] =
                    Outcome(i, resolved_name, FALSE, "Missing required parameter")]
            /\ UNCHANGED execlog
       ELSE \E r \in ExecOutcomes :
            /\ execlog' = Append(execlog, Invocation(i, resolved_name, arguments, r))
            /\ results' = [results EXCEPT ![i] =
                    Outcome(i, resolved_name, r = "ok", ExecErrorText(r))]
    /\ UNCHANGED <<batch, idx, traces, messages, raised, trace_validation, dpc, notDispatch>>

\* the list process_tool_calls returns: one outcome per call, in call order
ProcessToolCallsResults(res) == res

\* the messages of a loop that answers every call under the id of the last
\* tool call
ZipToolMessagesLastId(b, res) ==
    [k \in 1..Len(b) |->
        ToolMessage(b[k].name, res[k].producer, res[k].success, CallId(Len(b)))]

\* "for tc, res in zip(tool_calls, results)": one role="tool" message per pair
ZipToolMessages(b, res) ==
    [k \in 1..(IF Len(b) <= Len(res) THEN Len(b) ELSE Len(res)) |->
        ToolMessage(b[k].name, res[k].producer, res[k].success, CallId(k))]

\* process_tool_calls has returned: append the assistant message with all
\* tool calls and one tool message per result
TmAppend ==
    /\ dpc = "processing"
    /\ \A i \in 1..Len(batch) : results[i].done
    /\ messages' = Append(messages, AssistantMessage([k \in 1..Len(batch) |-> CallId(k)]))
                    \o ZipToolMessages(batch, ProcessToolCallsResults(results))
    /\ dpc' = "done"
    /\ UNCHANGED <<batch, idx, traces, execlog, results, raised, trace_validation,
                   notDispatch>>

InitToolManager ==
    CollectIdle /\ DispatchStart /\ AdaptIdle /\ ManagerIdle /\ LoadIdle /\ PingIdle

NextToolManager == TmInspect \/ (\E i \in 1..Len(batch) : TmExecute(i)) \/ TmAppend

SpecToolManager == InitToolManager /\ [][NextToolManager]_vars

(***************************************************************************)
(* CLI diagnostic: _test_tool_execution, _manual_validate_tool_arguments   *)
(***************************************************************************)
\* validation_rules: the required parameters of the known tools, in order
\* (every typed parameter of a rule is of type str)
validation_rules ==
    [t \in {"read_query", "write_query", "describe_table", "create_table"} |->
        IF t = "describe_table"
        THEN [required |-> <<"table_name">>, types |-> {"table_name"}]
        ELSE [required |-> <<"query">>, types |-> {"query"}]]

\* "not value" of Python for a JSON value
Falsy(v) ==
    \/ v.kind = "null"
    \/ v.kind = "string" /\ v.str = ""
    \/ v.kind = "number" /\ v.str = "0"
    \/ v.kind \in {"array", "object"} /\ DOMAIN v.fields = {}

Valid == [valid |-> TRUE, error |-> ""]

Invalid(error) == [valid |-> FALSE, error |-> error]

RECURSIVE CheckRequired(_, _, _)
\* the loop over rules["required"]: the error of the first parameter that
\* is absent or empty, "" when there is none
CheckRequired(required, tool_name, arguments) ==
    IF required = <<>> THEN ""
    ELSE LET p == Head(required) IN
         IF p \notin DOMAIN arguments
         THEN "Missing required parameter '" \o p \o "' for tool '" \o tool_name \o "'"
         ELSE IF Falsy(arguments[p])
         THEN "Parameter '" \o p \o "' cannot be empty for tool '" \o tool_name \o "'"
         ELSE CheckRequired(Tail(required), tool_name, arguments)

\* the parameters present with a value that is not a str
WrongType(types, arguments) ==
    { p \in types : p \in DOMAIN arguments /\ arguments[p].kind # "string" }

\* a validation that only looks for absent parameters
ManualValidateAbsentOnly(tool_name, arguments) ==
    IF tool_name \notin DOMAIN validation_rules THEN Valid
    ELSE IF \E i \in 1..Len(validation_rules[tool_name].required) :
                validation_rules[tool_name].required[i] \notin DOMAIN arguments
    THEN Invalid("Missing required parameter '"
                    \o validation_rules[tool_name].required[1]
                    \o "' for tool '" \o tool_name \o "'")
    ELSE Valid

ManualValidateToolArguments(tool_name, arguments) ==
    IF tool_name \notin DOMAIN validation_rules THEN Valid
    ELSE
        LET rules == validation_rules[tool_name]
            missing == CheckRequired(rules.required, tool_name, arguments)
            wrong == WrongType(rules.types, arguments)
        IN
        IF missing # "" THEN Invalid(missing)
        ELSE IF wrong # {}
        THEN Invalid("Parameter '" \o (CHOOSE p \in wrong : TRUE)
                        \o "' must be of type str for tool '" \o tool_name \o "'")
        ELSE Valid

CliTools == {"read_query", "describe_table", "list_tables"}

QueryValues == {JNull, JStr(""), JStr("SELECT 1"), JNum("1")}

\* the argument dicts the diagnostic is run with: "query" absent or with one
\* of QueryValues, "table_name" absent or "products"
CliArguments ==
    { [k \in {} |-> JNull], [k \in {"table_name"} |-> JStr("products")] }
    \cup { [k \in {"query"} |-> q] : q \in QueryValues }
    \cup { [k \in {"query", "table_name"} |->
                IF k = "query" THEN q ELSE JStr("products")] : q \in QueryValues }

CliTrace(tool_name, arguments, validation, executed, r, error_details) ==
    [tool_name |-> tool_name,
     original_args |-> arguments,
     validation_result |-> validation,
     executed |-> executed,
     success |-> (executed /\ r = "ok"),
     error_details |-> error_details]

\* one call of _test_tool_execution; results is the caller's list of the
\* traces it returned
CliStep ==
    /\ dpc = "running"
    /\ Len(results) < MaxCliCalls
    /\ \E tool_name \in CliTools, arguments \in CliArguments :
        LET validation == IF trace_validation
                          THEN ManualValidateToolArguments(tool_name, arguments)
                          ELSE Valid
        IN
        IF ~validation.valid
        THEN /\ results' = Append(results,
                    CliTrace(tool_name, arguments, validation, FALSE, "", validation.error))
             /\ UNCHANGED <<traces, execlog>>
        ELSE \E r \in ExecOutcomes :
             LET trace == CliTrace(tool_name, arguments, validation, TRUE, r,
                                   ExecErrorText(r))
             IN
             /\ execlog' = Append(execlog,
                    Invocation(Len(results) + 1, tool_name, JObj(arguments), r))
             /\ traces' = Append(traces, trace)
             /\ results' = Append(results, trace)
    /\ UNCHANGED <<batch, idx, messages, raised, trace_validation, dpc, notDispatch>>

\* every critical tool was tried: _analyze_results
CliAnalyze ==
    /\ dpc = "running"
    /\ dpc' = "done"
    /\ UNCHANGED <<batch, idx, traces, execlog, messages, results, raised,
                   trace_validation, notDispatch>>

InitCli ==
    /\ CollectIdle
    /\ AdaptIdle
    /\ ManagerIdle
    /\ LoadIdle
    /\ PingIdle
    /\ batch = <<>>
    /\ idx = 1
    /\ traces = <<>>
    /\ execlog = <<>>
    /\ messages = <<>>
    /\ results = <<>>
    /\ raised = ""
    /\ trace_validation \in BOOLEAN
    /\ dpc = "running"

NextCli == CliStep \/ CliAnalyze

SpecCli == InitCli /\ [][NextCli]_vars

(***************************************************************************)
(* Tool catalog adapter: get_adapted_tools_for_llm, and its caller         *)
(* _load_tools_like_conversation                                           *)
(***************************************************************************)
ToolDefinition(namespace, name) == [namespace |-> namespace, name |-> name]

Namespaces == { <<"a">>, <<"a", "_", "b">>, <<"s", ".", "x">> }

ToolNames == { <<"c">>, <<"b", "_", "c">>, <<"c", "!">> }

ToolDefinitions == { ToolDefinition(ns, n) : ns \in Namespaces, n \in ToolNames }

\* the catalogs: lists of distinct tool definitions
Catalogs ==
    { c \in UNION { [1..n -> ToolDefinitions] : n \in 0..MaxTools } :
        \A i, j \in 1..Len(c) : i # j => c[i] # c[j] }

\* the characters a provider accepts in a function name: [A-Za-z0-9_-]
SafeChars == {"a", "b", "c", "s", "x", "_", "-", "2", "3", "4", "5", "6"}

Sanitize(t) == [i \in 1..Len(t) |-> IF t[i] \in SafeChars THEN t[i] ELSE "_"]

\* namespace and name joined with an underscore, disallowed characters replaced
BaseSafeName(defn) == Sanitize(defn.namespace \o <<"_">> \o defn.name)

\* "namespace.name"
QualifiedName(defn) == defn.namespace \o <<".">> \o defn.name

\* no tie-break: colliding definitions keep the same safe name
DisambiguateNever(base, taken, n) == base

RECURSIVE Disambiguate(_, _, _)
\* the tie-break: base itself when it is free, else base with the first
\* numeric suffix 2, 3, ... that is free
Disambiguate(base, taken, n) ==
    LET candidate == IF n = 1 THEN base ELSE base \o <<ToString(n)>> IN
    IF candidate \notin taken THEN candidate ELSE Disambiguate(base, taken, n + 1)

\* every definition keeps its base name, whatever names are already taken
SafeNamesUntaken(defs) == [i \in 1..Len(defs) |-> BaseSafeName(defs[i])]

RECURSIVE SafeNames(_)
\* the safe names of a catalog, in catalog order
SafeNames(defs) ==
    IF defs = <<>> THEN <<>>
    ELSE LET before == SafeNames(SubSeq(defs, 1, Len(defs) - 1))
             taken == { before[i] : i \in 1..Len(before) }
         IN Append(before, Disambiguate(BaseSafeName(defs[Len(defs)]), taken, 1))

\* adapt(tool_definitions, provider): the adapted list and the name mapping
Adapt(defs) ==
    LET names == SafeNames(defs) IN
    [adapted |-> [i \in 1..Len(defs) |-> [safe_name |-> names[i]]],
     mapping |-> [sn \in { names[i] : i \in 1..Len(defs) } |->
                    QualifiedName(defs[CHOOSE i \in 1..Len(defs) : names[i] = sn])]]

\* the tool manager has an adapter and it returns
LoadTools ==
    /\ apc = "start"
    /\ openai_tools' = Adapt(tool_defs).adapted
    /\ tool_name_mapping' = Adapt(tool_defs).mapping
    /\ apc' = "loaded"
    /\ UNCHANGED <<tool_defs, notAdapt>>

\* the adapter raises: "except Exception" leaves no tools and no mapping
LoadToolsFails ==
    /\ apc = "start"
    /\ openai_tools' = <<>>
    /\ tool_name_mapping' = <<>>
    /\ apc' = "failed"
    /\ UNCHANGED <<tool_defs, notAdapt>>

InitAdapt ==
    /\ CollectIdle
    /\ DispatchIdle
    /\ ManagerIdle
    /\ LoadIdle
    /\ PingIdle
    /\ tool_defs \in Catalogs
    /\ openai_tools = <<>>
    /\ tool_name_mapping = <<>>
    /\ apc = "start"

NextAdapt == LoadTools \/ LoadToolsFails

SpecAdapt == InitAdapt /\ [][NextAdapt]_vars

(***************************************************************************)
(* Provider configuration: ModelManager (and ProviderConfig, whose         *)
(* _load_and_sync, _save, get_provider_config and active-model methods are *)
(* the same code)                                                          *)
(***************************************************************************)
\* dict.get(k, default), d[k] = v, d.update(u), d.pop(k, None)
Get(d, k, default) == IF k \in DOMAIN d THEN d[k] ELSE default

Put(d, k, v) == [x \in (DOMAIN d) \cup {k} |-> IF x = k THEN v ELSE d[x]]

Update(d, u) ==
    [x \in (DOMAIN d) \cup (DOMAIN u) |-> IF x \in DOMAIN u THEN u[x] ELSE d[x]]

Pop(d, k) == [x \in (DOMAIN d) \ {k} |-> d[x]]

\* the defaults of chuk-llm: a global section and one section per provider
DEFAULTS ==
    [name \in {"__global__", "openai", "ollama"} |->
        IF name = "__global__"
        THEN [active_provider |-> "openai", active_model |-> "gpt-4o-mini"]
        ELSE IF name = "openai"
        THEN [client |-> "OpenAILLMClient", api_key |-> PyNone,
              default_model |-> "gpt-4o-mini"]
        ELSE [client |-> "OllamaLLMClient", default_model |-> "qwen3"]]

\* a _load_and_sync in which the defaults overwrite the stored values
LoadAndSyncDefaultsWin(file) ==
    LET on_disk == IF file.kind = "dict" THEN file.data ELSE NoFields
        overlaid == [prov \in (DOMAIN DEFAULTS) \cup (DOMAIN on_disk) |->
                        Update(Get(on_disk, prov, NoFields), Get(DEFAULTS, prov, NoFields))]
        merged == [prov \in DOMAIN overlaid |-> Pop(overlaid[prov], "client")]
    IN
    [providers |-> merged,
     file |-> IF merged # on_disk THEN File(merged) ELSE file]

\* _load_and_sync: the merged configuration and the file it leaves behind
LoadAndSync(file) ==
    LET on_disk == IF file.kind = "dict" THEN file.data ELSE NoFields
        overlaid == [prov \in (DOMAIN DEFAULTS) \cup (DOMAIN on_disk) |->
                        Update(Get(DEFAULTS, prov, NoFields), Get(on_disk, prov, NoFields))]
        merged == [prov \in DOMAIN overlaid |-> Pop(overlaid[prov], "client")]
    IN
    [providers |-> merged,
     file |-> IF merged # on_disk THEN File(merged) ELSE file]

\* _save
Save(provs) == File(provs)

EnsureSection(provs, name) ==
    IF name \in DOMAIN provs THEN provs ELSE Put(provs, name, NoFields)

\* list_providers, as a set
ListProviders(provs) == ((DOMAIN DEFAULTS) \cup (DOMAIN provs)) \ {"__global__"}

\* every provider name of the model in sorted order
SortedProviderNames == <<"custom", "fake-ai", "ollama", "openai">>

\* list_providers: sorted(providers)
ListProvidersSorted(provs) ==
    SelectSeq(SortedProviderNames, LAMBDA n : n \in ListProviders(provs))

RECURSIVE Join(_, _)
\* sep.join(names)
Join(names, sep) ==
    IF names = <<>> THEN ""
    ELSE IF Len(names) = 1 THEN names[1]
    ELSE names[1] \o sep \o Join(Tail(names), sep)

\* _global_config (the section exists in every loaded configuration)
GlobalConfig(provs) == EnsureSection(provs, "__global__")["__global__"]

GetActiveProvider(provs) ==
    Get(GlobalConfig(provs), "active_provider", DEFAULTS["__global__"].active_provider)

GetActiveModel(provs) ==
    Get(GlobalConfig(provs), "active_model", DEFAULTS["__global__"].active_model)

\* _global_config[k] = v
SetGlobal(provs, k, v) ==
    [EnsureSection(provs, "__global__") EXCEPT !["__global__"] = Put(@, k, v)]

\* get_provider_config raises ValueError for this name
UnknownToConfig(provs, provider) ==
    provider \notin DOMAIN DEFAULTS /\ provider \notin DOMAIN provs

\* get_provider_config of a name it knows: defaults overlaid with the section
GetProviderConfig(provs, provider) ==
    Update(Get(DEFAULTS, provider, NoFields), EnsureSection(provs, provider)[provider])

\* a validate_provider that accepts every name
ValidateProviderAlways(provs, provider) == TRUE

\* validate_provider
ValidateProvider(provs, provider) == ~UnknownToConfig(provs, provider)

\* get_default_model of a name get_provider_config knows
GetDefaultModel(provs, provider) ==
    Get(GetProviderConfig(provs, provider), "default_model", "")

\* set_provider_config: the section after the update
SetProviderConfig(provs, provider, updates) ==
    [EnsureSection(provs, provider) EXCEPT ![provider] = Update(@, updates)]

\* config_updates of configure_provider(provider, api_key, api_base, **kwargs)
\* called with one setting: api_key and api_base are dropped when None
ConfigUpdates(key, val) ==
    IF key \in {"api_key", "api_base"} /\ val = PyNone THEN NoFields
    ELSE [k \in {key} |-> val]

\* a switch_model that accepts every provider name
SwitchModelErrorNever(provs, provider) == ""

\* the ValueError of switch_model, "" when it does not raise
SwitchModelError(provs, provider) ==
    IF provider \notin ListProviders(provs) THEN "Unknown provider: " \o provider
    ELSE ""

\* self.providers after switch_model went through
SwitchModelProviders(provs, provider, model) ==
    SetGlobal(SetGlobal(provs, "active_provider", provider), "active_model", model)

\* the provider and model names the operations are called with
ProviderNames == {"openai", "ollama", "custom", "fake-ai", "__global__"}

ModelNames == {"gpt-4o", "qwen3", "fake-model"}

\* what _chuk_get_llm_client does: it returns a client or raises
ClientOutcomes == {"created", "raise"}

\* the configuration files a run may start from
DiskFiles ==
    { Missing, Corrupt,
      File([prov \in {"openai"} |-> [api_key |-> "sk-1"]]),
      File([prov \in {"__global__", "custom"} |->
                IF prov = "__global__"
                THEN [active_provider |-> "custom", active_model |-> "m1"]
                ELSE [default_model |-> "m1", api_key |-> "sk-c"]]) }

\* the contexts a command may be called with: without "provider", "model"
\* and "client" or holding the active pair and a client for it, and without
\* or with the configuration objects
Contexts(provs) ==
    { [c EXCEPT !.model_manager = has, !.provider_config = has] :
        c \in { EmptyContext,
                [provider |-> GetActiveProvider(provs), model |-> GetActiveModel(provs),
                 client |-> Client(GetActiveProvider(provs), GetActiveModel(provs), 0),
                 model_manager |-> FALSE, provider_config |-> FALSE] },
        has \in BOOLEAN }

\* the configuration object was constructed on one of the files
ManagerStart ==
    /\ \E file \in DiskFiles :
        /\ providers = LoadAndSync(file).providers
        /\ disk = LoadAndSync(file).file
    /\ cached = NoCache
    /\ context \in Contexts(providers)
    /\ console = <<>>
    /\ last = NoOperation
    /\ mm_raised = ""
    /\ nclients = 0
    /\ nops = 0
    /\ mpc = "ready"

\* an _invalidate_client_cache that leaves the cache as it is
InvalidateClientCacheKeeps(c) == c

\* _invalidate_client_cache
InvalidateClientCache(c) == NoCache

\* a get_client that returns _cached_client whenever no refresh is forced
CacheHitUntested(c, force_refresh, current_provider, current_model) == ~force_refresh

\* get_client returns the cached client
CacheHit(c, force_refresh, current_provider, current_model) ==
    /\ ~force_refresh
    /\ c.client.made
    /\ c.provider = current_provider
    /\ c.model = current_model

\* switch_model(provider, model)
SwitchModel ==
    /\ mpc = "ready"
    /\ nops < MaxOps
    /\ \E provider \in ProviderNames, model \in ModelNames :
        /\ last' = Operation("switch_model", provider, model, "", "", "")
        /\ mm_raised' = SwitchModelError(providers, provider)
        /\ IF SwitchModelError(providers, provider) # ""
           THEN UNCHANGED <<providers, cached, disk>>
           ELSE /\ providers' = SwitchModelProviders(providers, provider, model)
                /\ cached' = InvalidateClientCache(cached)
                /\ disk' = Save(providers')
    /\ nops' = nops + 1
    /\ UNCHANGED <<context, console, nclients, mpc, notManager>>

\* set_active_model(model)
SetActiveModel ==
    /\ mpc = "ready"
    /\ nops < MaxOps
    /\ \E model \in ModelNames :
        /\ last' = Operation("set_active_model", "", model, "", "", "")
        /\ providers' = SetGlobal(providers, "active_model", model)
    /\ cached' = InvalidateClientCache(cached)
    /\ disk' = Save(providers')
    /\ mm_raised' = ""
    /\ nops' = nops + 1
    /\ UNCHANGED <<context, console, nclients, mpc, notManager>>

\* get_client(force_refresh)
GetClient ==
    /\ mpc = "ready"
    /\ nops < MaxOps
    /\ LET current_provider == GetActiveProvider(providers)
           current_model == GetActiveModel(providers)
       IN
       \E force_refresh \in BOOLEAN, outcome \in ClientOutcomes :
          LET op == Operation("get_client", current_provider, current_model, "",
                              IF force_refresh THEN "force_refresh" ELSE "", outcome)
          IN
          IF CacheHit(cached, force_refresh, current_provider, current_model)
          THEN /\ last' = [op EXCEPT !.env = "cached", !.client = cached.client]
               /\ mm_raised' = ""
               /\ UNCHANGED <<cached, nclients>>
          ELSE IF outcome = "raise"
          THEN /\ last' = op
               /\ mm_raised' = "client creation failed"
               /\ UNCHANGED <<cached, nclients>>
          ELSE LET client == Client(current_provider, current_model, nclients + 1) IN
               /\ last' = [op EXCEPT !.client = client]
               /\ mm_raised' = ""
               /\ cached' = [client |-> client, provider |-> current_provider,
                             model |-> current_model]
               /\ nclients' = nclients + 1
    /\ nops' = nops + 1
    /\ UNCHANGED <<providers, disk, context, console, mpc, notManager>>

\* the values configure_provider is called with; PyNone is None
SettingValues == {"sk-2", PyNone}

\* configure_provider(provider, <key>=val)
ConfigureProvider ==
    /\ mpc = "ready"
    /\ nops < MaxOps
    /\ \E provider \in {"openai", "custom"}, key \in {"api_key", "default_model"},
          val \in SettingValues :
        /\ last' = Operation("configure_provider", provider, "", key, val,
                              IF ConfigUpdates(key, val) = NoFields THEN "" ELSE "updated")
        /\ IF ConfigUpdates(key, val) = NoFields
           THEN UNCHANGED <<providers, cached, disk>>
           ELSE /\ providers' = SetProviderConfig(providers, provider,
                                                  ConfigUpdates(key, val))
                /\ cached' = InvalidateClientCache(cached)
                /\ disk' = Save(providers')
    /\ mm_raised' = ""
    /\ nops' = nops + 1
    /\ UNCHANGED <<context, console, nclients, mpc, notManager>>

\* set_active_provider(provider)
SetActiveProvider ==
    /\ mpc = "ready"
    /\ nops < MaxOps
    /\ \E provider \in ProviderNames :
        /\ last' = Operation("set_active_provider", provider, "", "", "", "")
        /\ mm_raised' = SwitchModelError(providers, provider)
        /\ IF SwitchModelError(providers, provider) # ""
           THEN UNCHANGED <<providers, cached, disk>>
           ELSE /\ providers' = SetGlobal(providers, "active_provider", provider)
                /\ cached' = InvalidateClientCache(cached)
                /\ disk' = Save(providers')
    /\ nops' = nops + 1
    /\ UNCHANGED <<context, console, nclients, mpc, notManager>>

\* switch_provider(provider, model); PyNone is the default model=None
SwitchProvider ==
    /\ mpc = "ready"
    /\ nops < MaxOps
    /\ \E provider \in ProviderNames, model \in {PyNone, "qwen3"} :
        LET unknown == model = PyNone /\ UnknownToConfig(providers, provider)
            ensured == IF model = PyNone /\ ~unknown
                       THEN EnsureSection(providers, provider) ELSE providers
            target == IF model = PyNone /\ ~unknown
                      THEN GetDefaultModel(ensured, provider) ELSE model
        IN
        /\ last' = Operation("switch_provider", provider, model, "", "", "")
        /\ IF unknown
           THEN /\ mm_raised' = "Unknown provider: " \o provider
                /\ UNCHANGED <<providers, cached, disk>>
           ELSE IF SwitchModelError(ensured, provider) # ""
           THEN /\ mm_raised' = SwitchModelError(ensured, provider)
                /\ providers' = ensured
                /\ UNCHANGED <<cached, disk>>
           ELSE /\ mm_raised' = ""
                /\ providers' = SwitchModelProviders(ensured, provider, target)
                /\ cached' = InvalidateClientCache(cached)
                /\ disk' = Save(providers')
    /\ nops' = nops + 1
    /\ UNCHANGED <<context, console, nclients, mpc, notManager>>

\* switch_to_model(model, provider); PyNone is the default provider=None
SwitchToModel ==
    /\ mpc = "ready"
    /\ nops < MaxOps
    /\ \E model \in ModelNames, provider \in {PyNone, "ollama"} :
        LET target == IF provider = PyNone THEN GetActiveProvider(providers)
                      ELSE provider
        IN
        /\ last' = Operation("switch_to_model", provider, model, "", "", "")
        /\ mm_raised' = SwitchModelError(providers, target)
        /\ IF SwitchModelError(providers, target) # ""
           THEN UNCHANGED <<providers, cached, disk>>
           ELSE /\ providers' = SwitchModelProviders(providers, target, model)
                /\ cached' = InvalidateClientCache(cached)
                /\ disk' = Save(providers')
    /\ nops' = nops + 1
    /\ UNCHANGED <<context, console, nclients, mpc, notManager>>

\* a get_client_for_provider that switches to the pair and caches the client
GetClientForProviderSwitching ==
    /\ mpc = "ready"
    /\ nops < MaxOps
    /\ \E provider \in ProviderNames \ {"__global__"}, model \in {"qwen3"} :
        LET client == Client(provider, model, nclients + 1) IN
        /\ last' = [Operation("get_client_for_provider", provider, model, "", "",
                              "created") EXCEPT !.client = client]
        /\ providers' = SwitchModelProviders(providers, provider, model)
        /\ cached' = [client |-> client, provider |-> provider, model |-> model]
        /\ disk' = Save(providers')
    /\ mm_raised' = ""
    /\ nclients' = nclients + 1
    /\ nops' = nops + 1
    /\ UNCHANGED <<context, console, mpc, notManager>>

\* get_client_for_provider(provider, model); PyNone is the default model=None
GetClientForProvider ==
    /\ mpc = "ready"
    /\ nops < MaxOps
    /\ \E provider \in ProviderNames, model \in {PyNone, "qwen3"},
          outcome \in ClientOutcomes :
        LET unknown == model = PyNone /\ UnknownToConfig(providers, provider)
            ensured == IF model = PyNone /\ ~unknown
                       THEN EnsureSection(providers, provider) ELSE providers
            target == IF model = PyNone /\ ~unknown
                      THEN GetDefaultModel(ensured, provider) ELSE model
            op == Operation("get_client_for_provider", provider, model, "", "", outcome)
        IN
        /\ providers' = ensured
        /\ IF unknown
           THEN /\ outcome = "raise"
                /\ last' = op
                /\ mm_raised' = "Unknown provider: " \o provider
                /\ UNCHANGED nclients
           ELSE IF outcome = "raise"
           THEN /\ last' = op
                /\ mm_raised' = "client creation failed"
                /\ UNCHANGED nclients
           ELSE /\ last' = [op EXCEPT !.client = Client(provider, target, nclients + 1)]
                /\ mm_raised' = ""
                /\ nclients' = nclients + 1
    /\ nops' = nops + 1
    /\ UNCHANGED <<cached, disk, context, console, mpc, notManager>>

InitModelManager ==
    CollectIdle /\ DispatchIdle /\ AdaptIdle /\ ManagerStart /\ LoadIdle /\ PingIdle

NextModelManager ==
    \/ SwitchModel
    \/ SetActiveModel
    \/ SetActiveProvider
    \/ SwitchProvider
    \/ SwitchToModel
    \/ GetClient
    \/ GetClientForProvider
    \/ ConfigureProvider

SpecModelManager == InitModelManager /\ [][NextModelManager]_vars

(***************************************************************************)
(* Construction of a ProviderConfig or ModelManager on a configuration     *)
(* file: __init__, _load_and_sync, set_provider_config                     *)
(***************************************************************************)
\* a file whose content json.loads decodes to something that is no object
\* (a list, a string, a number, null)
NonDict == [kind |-> "nondict", data |-> NoFields]

\* the sections a file may hold under each name before the first load
FileSections ==
    [name \in {"openai", "custom", "__global__"} |->
        IF name = "openai"
        THEN { [api_key |-> "sk-1"],
               [client |-> "legacy", default_model |-> "gpt-4o"] }
        ELSE IF name = "custom"
        THEN { [client |-> "legacy", api_base |-> "http://h"] }
        ELSE { [active_provider |-> "custom", active_model |-> "m1"] }]

\* the files a constructor may find
LoadFiles ==
    {Missing, Corrupt, NonDict} \cup
    { File(d) : d \in
        { f \in UNION { [S -> UNION { FileSections[n] : n \in DOMAIN FileSections }] :
                            S \in SUBSET DOMAIN FileSections } :
            \A n \in DOMAIN f : f[n] \in FileSections[n] } }

\* the (section, key) pairs of a file
FileKeys(file) ==
    UNION { { <<prov, k>> : k \in DOMAIN file.data[prov] } : prov \in DOMAIN file.data }

\* the exception of _load_and_sync, "" when it returns: on_disk.items() of a
\* decoded value that is no dict
LoadRaises(file) ==
    IF file.kind = "nondict" THEN "AttributeError: no attribute 'items'" ELSE ""

LoadStart ==
    /\ cfg_file \in LoadFiles
    /\ source_file = cfg_file
    /\ loaded = NoFields
    /\ user_set = FileKeys(cfg_file)
    /\ load_raised = ""
    /\ nloads = 0
    /\ lpc = "start"

\* ProviderConfig(path) / ModelManager(path)
Construct ==
    /\ lpc \in {"start", "loaded", "changed"}
    /\ nloads < MaxOps
    /\ source_file' = cfg_file
    /\ load_raised' = LoadRaises(cfg_file)
    /\ IF LoadRaises(cfg_file) # ""
       THEN /\ lpc' = "raised"
            /\ UNCHANGED <<loaded, cfg_file>>
       ELSE /\ lpc' = "loaded"
            /\ loaded' = LoadAndSync(cfg_file).providers
            /\ cfg_file' = LoadAndSync(cfg_file).file
    /\ nloads' = nloads + 1
    /\ UNCHANGED <<user_set, notLoad>>

\* set_provider_config(provider, updates) on the constructed object
SetOnFile ==
    /\ lpc \in {"loaded", "changed"}
    /\ nloads < MaxOps
    /\ \E provider \in {"openai", "custom"},
          updates \in { [api_key |-> "sk-2"], [default_model |-> "m2"] } :
        /\ loaded' = SetProviderConfig(loaded, provider, updates)
        /\ cfg_file' = Save(loaded')
        /\ user_set' = user_set \cup { <<provider, k>> : k \in DOMAIN updates }
    /\ lpc' = "changed"
    /\ load_raised' = ""
    /\ nloads' = nloads + 1
    /\ UNCHANGED <<source_file, notLoad>>

InitLoad ==
    CollectIdle /\ DispatchIdle /\ AdaptIdle /\ ManagerIdle /\ LoadStart /\ PingIdle

NextLoad == Construct \/ SetOnFile

SpecLoad == InitLoad /\ [][NextLoad]_vars

(***************************************************************************)
(* The "model" command: model_action_async on a ProviderConfig             *)
(***************************************************************************)
\* probe.get("response"): absent, None, or a text
Responses == {Absent, PyNone, "", " ", "pong", "Error: model not found"}

\* the texts for which resp.strip() is empty
BlankResponses == {"", " "}

\* the texts for which resp.strip().lower().startswith("error")
ErrorResponses == {"Error: model not found"}

Probes ==
    { Probe("client_raise", FALSE, Absent), Probe("probe_raise", FALSE, Absent),
      Probe("other", FALSE, Absent) }
    \cup { Probe("dict", e, r) : e \in BOOLEAN, r \in Responses }

\* a probe check that accepts every answer
ProbeOkAlways(probe) == TRUE

\* the test that sets ok = True
ProbeOk(probe) ==
    /\ probe.kind = "dict"
    /\ ~probe.error
    /\ probe.response \notin {Absent, PyNone}
    /\ probe.response \notin BlankResponses
    /\ probe.response \notin ErrorResponses

\* err after a probe that is not ok
ProbeErr(probe) ==
    IF probe.kind \in {"client_raise", "probe_raise"} THEN "connection refused"
    ELSE IF probe.kind = "dict" /\ probe.response \notin {Absent, PyNone, ""}
    THEN probe.response
    ELSE "Provider returned invalid or empty response"

\* "model" and "model list": print and return
ModelShow ==
    /\ mpc = "ready"
    /\ nops < MaxOps
    /\ LET provider == GetActiveProvider(providers)
           current_model == GetActiveModel(providers)
       IN
       \E arg \in {"", "list", "LIST"} :
          /\ last' = Operation("model", provider, "", "", arg, "")
          /\ console' =
                IF arg = ""
                THEN << "[cyan]Current model:[/cyan] " \o current_model,
                        "[cyan]Provider     :[/cyan] " \o provider,
                        "[dim]model <name>   to switch  |  model list   to list[/dim]" >>
                ELSE << "default " \o GetDefaultModel(providers, provider) >>
    /\ context' = [context EXCEPT !.provider_config = TRUE]
    /\ mm_raised' = ""
    /\ nops' = nops + 1
    /\ UNCHANGED <<providers, disk, cached, nclients, mpc, notManager>>

\* "model <name>": probe the model with a temporary client, switch when the
\* probe is ok
ModelSwitch ==
    /\ mpc = "ready"
    /\ nops < MaxOps
    /\ LET provider == GetActiveProvider(providers)
           current_model == GetActiveModel(providers)
       IN
       \E new_model \in ModelNames, probe \in Probes :
          LET tmp_client == Client(provider, new_model, nclients + 1)
              attempt == "[dim]Attempting to switch to '" \o new_model \o "'...[/dim]"
              op == [Operation("model", provider, new_model, "", new_model, "")
                        EXCEPT !.probe = probe]
          IN
          /\ nclients' = IF probe.kind = "client_raise" THEN nclients ELSE nclients + 1
          /\ IF ~ProbeOk(probe)
             THEN /\ last' = op
                  /\ console' =
                        << attempt,
                           "[red]Model switch failed:[/red] provider reported error: "
                                \o ProbeErr(probe),
                           "[yellow]Keeping current model:[/yellow] " \o current_model >>
                  /\ context' = [context EXCEPT !.provider_config = TRUE]
                  /\ UNCHANGED <<providers, disk>>
             ELSE /\ last' = [op EXCEPT !.client = tmp_client]
                  /\ providers' = SetGlobal(providers, "active_model", new_model)
                  /\ disk' = Save(providers')
                  /\ context' = [context EXCEPT !.provider_config = TRUE,
                                                !.model = new_model,
                                                !.client = tmp_client]
                  /\ console' = << attempt,
                                   "[green]Switched to model:[/green] " \o new_model >>
    /\ mm_raised' = ""
    /\ nops' = nops + 1
    /\ UNCHANGED <<cached, mpc, notManager>>

InitModelCommand ==
    CollectIdle /\ DispatchIdle /\ AdaptIdle /\ ManagerStart /\ LoadIdle /\ PingIdle

NextModelCommand == ModelShow \/ ModelSwitch

SpecModelCommand == InitModelCommand /\ [][NextModelCommand]_vars

(***************************************************************************)
(* The "provider" command: provider_action_async, _switch_provider,        *)
(* _get_provider_status, _mutate                                           *)
(***************************************************************************)
\* the names and the optional model "provider <name> [model]" is given;
\* "" is no model
CommandProviders == {"openai", "ollama", "fake-ai", "__global__"}

CommandModels == {"", "qwen3"}

\* what list_available_providers answers for the target provider: it raises,
\* has no entry for it, or has an entry with has_api_key True or False
InfoOutcomes == {"raise", "no_entry", "has_api_key", "no_api_key"}

\* a status check that finds every provider ready
GetProviderStatusReady(provider_name, info, ollama_running) == <<"OK", "ready">>

\* _get_provider_status: icon and reason; ollama_running is the result of
\* _check_ollama_running, "OK" is the check-mark icon and "X" the cross
GetProviderStatus(provider_name, info, ollama_running) ==
    IF provider_name = "ollama"
    THEN IF ollama_running THEN <<"OK", "Ollama running">>
         ELSE <<"X", "Ollama not running">>
    ELSE IF info = "has_api_key" THEN <<"OK", "API key configured">>
    ELSE <<"X", "No API key">>

\* the tip printed below a setup issue
SetupTip(prov, status_reason) ==
    IF prov = "ollama"
    THEN << "[yellow]Tip:[/yellow] Make sure Ollama is running: ollama serve" >>
    ELSE IF status_reason = "No API key"
    THEN << "[yellow]Tip:[/yellow] Set API key with: mcp-cli provider set " \o prov
                \o " api_key YOUR_KEY" >>
    ELSE <<>>

\* what the environment answers during one switch; the answers that the
\* switch does not look at are fixed
SwitchEnvs(prov) ==
    { e \in [info : InfoOutcomes, ollama_running : BOOLEAN, client : ClientOutcomes,
             fallback : {"unknown", "m1"}] :
        /\ prov = "ollama" => e.info \in {"raise", "no_entry"}
        /\ prov # "ollama" => e.ollama_running }

\* the report for a name validate_provider rejects
UnknownProviderReport(provs, prov) ==
    << "[red]Unknown provider:[/red] " \o prov,
       "[yellow]Available:[/yellow] " \o Join(ListProvidersSorted(provs), ", ") >>

\* "provider <name> [model]": provider_action_async and _switch_provider
ProviderSwitch ==
    /\ mpc = "ready"
    /\ nops < MaxOps
    /\ \E prov \in CommandProviders, model \in CommandModels :
       \E env \in SwitchEnvs(prov) :
        LET ctx == [context EXCEPT !.model_manager = TRUE]
            op == Operation("provider", prov, model, "",
                            IF env.ollama_running THEN "ollama running"
                            ELSE "ollama not running", env.info)
        IN
        IF ~ValidateProvider(providers, prov)
        THEN /\ last' = [op EXCEPT !.env = "", !.val = ""]
             /\ console' = UnknownProviderReport(providers, prov)
             /\ context' = ctx
             /\ UNCHANGED <<providers, disk, cached, nclients>>
        ELSE
        LET ensured == EnsureSection(providers, prov)
            default_model == GetDefaultModel(ensured, prov)
            usable == default_model \notin {"", PyNone}
            target_model == IF model # "" THEN model
                            ELSE IF usable THEN default_model
                            ELSE env.fallback
            status == GetProviderStatus(prov, env.info, env.ollama_running)
            switching == << "[dim]Switching to provider '" \o prov \o "' (model '"
                                \o target_model \o "')...[/dim]" >>
            warned == IF env.info = "raise"
                      THEN << "[yellow]Warning:[/yellow] Could not validate provider setup: "
                                \o "provider data unavailable" >>
                      ELSE <<>>
        IN
        /\ (model # "" \/ usable) => env.fallback = "unknown"
        /\ IF env.info # "raise" /\ status[1] = "X"
           THEN /\ last' = [op EXCEPT !.model = target_model]
                /\ console' = switching
                        \o << "[red]Provider setup issues:[/red] " \o status[2] >>
                        \o SetupTip(prov, status[2])
                /\ providers' = ensured
                /\ context' = ctx
                /\ env.client = "created"
                /\ UNCHANGED <<disk, cached, nclients>>
           ELSE IF SwitchModelError(ensured, prov) # ""
           THEN /\ last' = [op EXCEPT !.model = target_model]
                /\ console' = switching \o warned
                        \o << "[red]Failed to switch provider:[/red] "
                                \o SwitchModelError(ensured, prov) >>
                /\ providers' = ensured
                /\ context' = ctx
                /\ env.client = "created"
                /\ UNCHANGED <<disk, cached, nclients>>
           ELSE
                /\ providers' = SwitchModelProviders(ensured, prov, target_model)
                /\ disk' = Save(providers')
                /\ IF env.client = "raise"
                   THEN /\ last' = [op EXCEPT !.model = target_model]
                        /\ cached' = InvalidateClientCache(cached)
                        /\ context' = ctx
                        /\ console' = switching \o warned
                                \o << "[yellow]Warning:[/yellow] Could not update client: "
                                        \o "client creation failed",
                                      "[green]Switched to " \o prov \o "[/green] (model: "
                                        \o target_model \o ")" >>
                        /\ UNCHANGED nclients
                   ELSE LET client == Client(prov, target_model, nclients + 1) IN
                        /\ last' = [op EXCEPT !.model = target_model, !.client = client]
                        /\ cached' = [client |-> client, provider |-> prov,
                                      model |-> target_model]
                        /\ nclients' = nclients + 1
                        /\ context' = [ctx EXCEPT !.provider = prov,
                                                  !.model = target_model,
                                                  !.client = client]
                        /\ console' = switching \o warned
                                \o << "[green]Switched to " \o prov \o "[/green] (model: "
                                        \o target_model \o ")" >>
    /\ mm_raised' = ""
    /\ nops' = nops + 1
    /\ UNCHANGED <<mpc, notManager>>

\* the values of "provider set <prov> <key> <val>"
SetValues == {"sk-2", "null", "None"}

\* val.lower() in {"none", "null"}
NoneWords == {"none", "null", "None", "NULL"}

\* val_processed of _mutate
ValProcessed(val) == IF val \in NoneWords THEN PyNone ELSE val

\* "provider set <prov> <key> <val>": _mutate
ProviderSet ==
    /\ mpc = "ready"
    /\ nops < MaxOps
    /\ \E prov \in {"openai", "custom"}, key \in {"api_key", "default_model"},
          val \in SetValues :
        LET updates == ConfigUpdates(key, ValProcessed(val)) IN
        /\ last' = Operation("provider set", prov, "", key, val, "")
        /\ IF updates = NoFields
           THEN UNCHANGED <<providers, cached, disk>>
           ELSE /\ providers' = SetProviderConfig(providers, prov, updates)
                /\ cached' = InvalidateClientCache(cached)
                /\ disk' = Save(providers')
        /\ console' = << "[green]Updated " \o prov \o "." \o key \o "[/green]" >>
    /\ context' = [context EXCEPT !.model_manager = TRUE]
    /\ mm_raised' = ""
    /\ nops' = nops + 1
    /\ UNCHANGED <<nclients, mpc, notManager>>

InitProvider ==
    CollectIdle /\ DispatchIdle /\ AdaptIdle /\ ManagerStart /\ LoadIdle /\ PingIdle

NextProvider == ProviderSwitch \/ ProviderSet

SpecProvider == InitProvider /\ [][NextProvider]_vars

(***************************************************************************)
(* The "ping" command: ping_action_async, _ping_one, _display_server_name  *)
(***************************************************************************)
\* str.lower() on the names and filters of the model
Lower(t) ==
    CASE t = "ServerA" -> "servera"
      [] t = "ServerB" -> "serverb"
      [] t = "SERVERB" -> "serverb"
      [] t = "Api" -> "api"
      [] OTHER -> t

\* _display_server_name; the index counts from 0, an empty explicit_map is None
DisplayServerName(index, explicit_map, fallback_infos) ==
    IF index \in DOMAIN explicit_map THEN explicit_map[index]
    ELSE IF index < Len(fallback_infos) THEN fallback_infos[index + 1]
    ELSE "server-" \o ToString(index)

\* a filter that compares the names as they are written
SelectedCaseSensitive(index, name, tgts) ==
    \/ tgts = <<>>
    \/ \E i \in 1..Len(tgts) : tgts[i] \in {ToString(index), name}

\* the server passes the filter: not (targets and not any(...))
Selected(index, name, tgts) ==
    \/ tgts = <<>>
    \/ \E i \in 1..Len(tgts) : Lower(tgts[i]) \in {ToString(index), Lower(name)}

\* what send_ping under wait_for does: it returns True or False, runs into
\* the timeout, or raises
PingOutcomes == {"pong", "false", "timeout", "raise"}

\* a _ping_one that lets the exception of wait_for leave the task
PingOneResultUncaught(outcome) ==
    [ok |-> outcome = "pong", raised |-> outcome \in {"timeout", "raise"}]

\* _ping_one: "except Exception: ok = False"
PingOneResult(outcome) == [ok |-> outcome = "pong", raised |-> FALSE]

\* asyncio.create_task(_ping_one(idx, name, r, w, timeout=timeout))
Task(index, name) ==
    [idx |-> index, name |-> name, state |-> "created", outcome |-> "",
     ok |-> FALSE, raised |-> FALSE]

\* the names get_server_info may report and the filters of a call
InfoNames == {"ServerA", "ServerB"}

TargetNames == {"0", "1", "servera", "SERVERB", "api", "does-not-exist"}

PingStart ==
    /\ streams \in 0..MaxServers
    /\ server_infos \in UNION { [1..n -> InfoNames] : n \in 0..streams }
    /\ server_names \in {NoFields, [index \in {0} |-> "Api"]}
    /\ targets \in UNION { [1..n -> TargetNames] : n \in 0..MaxTargets }
    /\ tasks = <<>>
    /\ ping_results = <<>>
    /\ ping_returned = ""
    /\ ppc = "start"

\* ping_action_async up to "await asyncio.gather": the loop over the streams
PingCreateTasks ==
    /\ ppc = "start"
    /\ LET all == [i \in 1..streams |->
                     Task(i - 1, DisplayServerName(i - 1, server_names, server_infos))]
           created == SelectSeq(all, LAMBDA t : Selected(t.idx, t.name, targets))
       IN
       /\ tasks' = created
       /\ IF created = <<>>
          THEN /\ ping_returned' = "False"
               /\ ppc' = "done"
          ELSE /\ ping_returned' = ""
               /\ ppc' = "gathering"
    /\ UNCHANGED <<streams, server_infos, server_names, targets, ping_results, notPing>>

\* one task runs _ping_one to its end
PingOne ==
    /\ ppc = "gathering"
    /\ \E i \in 1..Len(tasks), outcome \in PingOutcomes :
        /\ tasks[i].state = "created"
        /\ tasks' = [tasks EXCEPT ![i] =
                        [@ EXCEPT !.state = "done", !.outcome = outcome,
                                  !.ok = PingOneResult(outcome).ok,
                                  !.raised = PingOneResult(outcome).raised]]
    /\ UNCHANGED <<streams, server_infos, server_names, targets, ping_results,
                   ping_returned, ppc, notPing>>

\* asyncio.gather returns the results in task order, or raises the first
\* exception of a task; then the table is rendered
PingGather ==
    /\ ppc = "gathering"
    /\ \/ \A i \in 1..Len(tasks) : tasks[i].state = "done"
       \/ \E i \in 1..Len(tasks) : tasks[i].raised
    /\ IF \E i \in 1..Len(tasks) : tasks[i].raised
       THEN /\ ping_returned' = "raised"
            /\ UNCHANGED ping_results
       ELSE /\ ping_results' = [i \in 1..Len(tasks) |->
                                  [name |-> tasks[i].name, ok |-> tasks[i].ok]]
            /\ ping_returned' = "True"
    /\ ppc' = "done"
    /\ UNCHANGED <<streams, server_infos, server_names, targets, tasks, notPing>>

InitPing ==
    CollectIdle /\ DispatchIdle /\ AdaptIdle /\ ManagerIdle /\ LoadIdle /\ PingStart

NextPing == PingCreateTasks \/ PingOne \/ PingGather

SpecPing == InitPing /\ [][NextPing]_vars

(***************************************************************************)
(* Properties of the dispatch loops                                        *)
(***************************************************************************)
DispatchFinished == dpc \in {"done", "raised"}

\* the executor was invoked for the i-th call of the batch
Executed(i) == \E k \in 1..Len(execlog) : execlog[k].call = i

\* the outcomes reported for the i-th call: traces of the diagnostics and
\* role="tool" messages of the round trips
TracesOf(i) == { k \in 1..Len(traces) : traces[k].tool_call_id = CallId(i) }

ToolMessagesOf(i) ==
    { k \in 1..Len(messages) :
        messages[k].role = "tool" /\ messages[k].tool_call_id = CallId(i) }

NumOutcomes ==
    Len(traces) + Cardinality({ k \in 1..Len(messages) : messages[k].role = "tool" })

\* arguments_json of the i-th call is text that json.loads rejects
InvalidJson(i) ==
    /\ batch[i].argkind = "str"
    /\ ~IsBlank(batch[i].arguments)
    /\ ~JsonLoads(batch[i].arguments).ok

\* C3: a finished dispatch of N calls has reported exactly N outcomes, one
\* for every call of the batch, whatever calls of the batch failed.
C3_OneOutcomePerCall ==
    DispatchFinished =>
        /\ NumOutcomes = Len(batch)
        /\ \A i \in 1..Len(batch) :
                Cardinality(TracesOf(i)) + Cardinality(ToolMessagesOf(i)) = 1

\* C4: a call whose arguments_json does not parse is reported as a failed
\* outcome with a JSON-decode error and the executor is not invoked for it.
C4_InvalidJsonNotExecuted ==
    \A i \in 1..Len(batch) :
        (InvalidJson(i) /\ (i < idx \/ DispatchFinished)) =>
            /\ ~Executed(i)
            /\ \E k \in TracesOf(i) :
                    ~traces[k].success /\ traces[k].error = "JSON decode error"

\* C6: a failed execution is reported as a failed outcome of its call that
\* carries the error text, and the dispatching code does not raise.
C6_ExecutionFailureReported ==
    \A k \in 1..Len(execlog) :
        execlog[k].outcome # "ok" =>
            /\ raised = ""
            /\ \/ \E t \in TracesOf(execlog[k].call) :
                    ~traces[t].success
                        /\ traces[t].error = ExecErrorText(execlog[k].outcome)
               \/ \E m \in ToolMessagesOf(execlog[k].call) : ~messages[m].ok

\* C7: the name handed to the executor is the mapped "namespace.name" when
\* the call's safe name has an entry in the name mapping, and the safe name
\* itself when it has none.
C7_NameResolution ==
    \A k \in 1..Len(execlog) :
        LET safe_name == batch[execlog[k].call].name IN
        /\ safe_name \in DOMAIN name_mapping
                => execlog[k].name = name_mapping[safe_name]
        /\ safe_name \notin DOMAIN name_mapping => execlog[k].name = safe_name

\* a mapped and an unmapped call of one batch have both been executed
C7_Witness ==
    /\ \E k \in 1..Len(execlog) :
            batch[execlog[k].call].name = "stdio_unknown_tool"
                /\ execlog[k].name = "stdio_unknown_tool"
    /\ \E k \in 1..Len(execlog) :
            batch[execlog[k].call].name = "stdio_read_query"
                /\ execlog[k].name = "stdio.read_query"

\* C8: the arguments passed to the executor are always a JSON object.
C8_ArgumentsAreObject ==
    \A k \in 1..Len(execlog) : execlog[k].arguments.kind = "object"

C12_ExecutedAtMostOnce ==
    \A k, l \in 1..Len(execlog) :
        k # l => execlog[k].call # execlog[l].call

\* a dispatch of two calls is over, the execution of the first returned an
\* error, the second raised, and each was executed once
C12_Witness ==
    /\ dpc = "done"
    /\ Len(batch) = 2
    /\ Len(execlog) = 2
    /\ execlog[1].call = 1 /\ execlog[1].outcome = "error"
    /\ execlog[2].call = 2 /\ execlog[2].outcome = "raise"
    /\ Len(traces) = 2
    /\ ~traces[1].success

(***************************************************************************)
(* Properties of the argument validation                                   *)
(***************************************************************************)
\* the traces of calls that were validated for a tool with a required
\* parameter p
ValidatedFor(t, p) ==
    /\ trace_validation
    /\ t.tool_name \in DOMAIN validation_rules
    /\ validation_rules[t.tool_name].required = <<p>>

AbsentIn(t, p) == p \notin DOMAIN t.original_args

NullOrEmptyIn(t, p) ==
    /\ p \in DOMAIN t.original_args
    /\ \/ t.original_args[p].kind = "null"
       \/ t.original_args[p].kind = "string" /\ t.original_args[p].str = ""

MissingMessage(p, tool_name) ==
    "Missing required parameter '" \o p \o "' for tool '" \o tool_name \o "'"

C15_UnknownProviderRejected ==
    [][(nops' = nops + 1 /\ last'.op = "switch_model"
            /\ last'.provider \notin ListProviders(providers))
        => /\ mm_raised' = "Unknown provider: " \o last'.provider
           /\ UNCHANGED <<providers, cached, disk>>]_vars

\* switch_model("fake-ai", ...) raised on a manager with a cached client
\* and an active model other than the default
C15_Witness ==
    /\ last.op = "switch_model"
    /\ last.provider = "fake-ai"
    /\ mm_raised = "Unknown provider: fake-ai"
    /\ cached.client.made
    /\ GetActiveModel(providers) = "qwen3"

\* the models a provider offers
AvailableModels ==
    [prov \in {"openai", "ollama", "custom"} |->
        IF prov = "openai" THEN {"gpt-4o", "gpt-4o-mini"}
        ELSE IF prov = "ollama" THEN {"qwen3"}
        ELSE {"m1"}]

\* C16: switch_model with a known provider and a model that is not
\* available for it raises ValueError("Model '<model>' not available for
\* provider '<provider>'") and does not make that model the active model.
C16_UnavailableModelRejected ==
    (/\ last.op = "switch_model"
     /\ last.provider \in ListProviders(providers) \cap DOMAIN AvailableModels
     /\ last.model \notin AvailableModels[last.provider])
    => /\ mm_raised = "Model '" \o last.model \o "' not available for provider '"
                        \o last.provider \o "'"
       /\ GetActiveModel(providers) # last.model

(***************************************************************************)
(* Properties of the commands                                              *)
(***************************************************************************)
\* the probe returned a non-empty response without an error
NonEmptyWithoutError(probe) ==
    /\ probe.kind = "dict"
    /\ ~probe.error
    /\ probe.response \in {"pong"}

\* C17: "model <name>" changes the configured active model, context["model"]
\* and context["client"] only if the probe made with the new model returned
\* a non-empty response without an error, and then to the new model and the
\* probed client; after any other probe the configuration, its file and the
\* two context entries are as they were.
C17_SwitchOnlyAfterProbe ==
    [][(nops' = nops + 1 /\ last'.op = "model" /\ last'.model # "")
        => IF NonEmptyWithoutError(last'.probe)
           THEN /\ GetActiveModel(providers') = last'.model
                /\ context'.model = last'.model
                /\ context'.client = last'.client
                /\ last'.client.made /\ last'.client.model = last'.model
           ELSE /\ UNCHANGED <<providers, disk>>
                /\ context'.model = context.model
                /\ context'.client = context.client]_vars

\* after a switch to gpt-4o that went through, a probe of fake-model came
\* back with an error text and gpt-4o is still the model
C17_Witness ==
    /\ last.op = "model"
    /\ last.model = "fake-model"
    /\ last.probe = Probe("dict", FALSE, "Error: model not found")
    /\ GetActiveModel(providers) = "gpt-4o"
    /\ context.model = "gpt-4o"
    /\ context.client.made /\ context.client.model = "gpt-4o"
    /\ disk = File(providers)

\* the command left the context as it found it: "provider", "model" and
\* "client" are the same, and so is the whole context when it came with its
\* configuration object
ContextKept ==
    /\ context'.provider = context.provider
    /\ context'.model = context.model
    /\ context'.client = context.client
    /\ context.model_manager => context' = context

\* C18: "provider <name>" with a name that is no provider of the
\* configuration prints "Unknown provider: <name>" and the available
\* providers and changes neither the configuration (active provider and
\* model), its file, the cached client nor the context.
C18_UnknownProviderReported ==
    [][(nops' = nops + 1 /\ last'.op = "provider"
            /\ UnknownToConfig(providers, last'.provider))
        => /\ console' = << "[red]Unknown provider:[/red] " \o last'.provider,
                            "[yellow]Available:[/yellow] "
                                \o Join(ListProvidersSorted(providers), ", ") >>
           /\ UNCHANGED <<providers, disk, cached>>
           /\ ContextKept]_vars

\* after a switch to ollama went through, "provider fake-ai" was reported
\* as unknown with the two providers of the configuration
C18_Witness ==
    /\ last.op = "provider"
    /\ last.provider = "fake-ai"
    /\ console = << "[red]Unknown provider:[/red] fake-ai",
                    "[yellow]Available:[/yellow] ollama, openai" >>
    /\ GetActiveProvider(providers) = "ollama"
    /\ context.provider = "ollama"
    /\ context.client.made

\* the check of the target provider's setup reported a problem: the
\* provider data was available and said that Ollama is not running or that
\* an API provider has no API key
SetupProblem(op) ==
    /\ op.env # "raise"
    /\ \/ op.provider = "ollama" /\ op.val = "ollama not running"
       \/ op.provider # "ollama" /\ op.env \in {"no_api_key", "no_entry"}

\* C19: when the setup check of the target provider reports a problem, the
\* provider switch leaves the active provider and model, the file, the
\* cached client and the context as they were.
C19_SetupProblemBlocksSwitch ==
    [][(nops' = nops + 1 /\ last'.op = "provider"
            /\ ~UnknownToConfig(providers, last'.provider)
            /\ SetupProblem(last'))
        => /\ GetActiveProvider(providers') = GetActiveProvider(providers)
           /\ GetActiveModel(providers') = GetActiveModel(providers)
           /\ UNCHANGED <<disk, cached>>
           /\ ContextKept]_vars

\* with ollama active after a switch, "provider openai" found no API key
\* and ollama is still the provider of the configuration and of the context
C19_Witness ==
    /\ last.op = "provider"
    /\ last.provider = "openai"
    /\ last.env = "no_api_key"
    /\ Len(console) = 3
    /\ console[2] = "[red]Provider setup issues:[/red] No API key"
    /\ GetActiveProvider(providers) = "ollama"
    /\ context.provider = "ollama"
    /\ cached.provider = "ollama"

\* the section of a provider holds an API key
StoredApiKey(provs, prov) ==
    /\ prov \in DOMAIN provs
    /\ "api_key" \in DOMAIN provs[prov]
    /\ provs[prov]["api_key"] # PyNone

\* C20: after "provider set <prov> api_key null" (or "none") the
\* configuration and its file hold no API key for <prov>.
C20_ApiKeyRemoved ==
    (last.op = "provider set" /\ last.key = "api_key" /\ last.val \in NoneWords)
        => /\ ~StoredApiKey(providers, last.provider)
           /\ ~StoredApiKey(disk.data, last.provider)

(***************************************************************************)
(* Properties of the configuration load                                    *)
(***************************************************************************)
\* C21: right after a load, every key of every section of the file the
\* constructor found holds the file's value in the loaded configuration,
\* whatever the default of that key is; only the key "client" is dropped.
C21_UserOverridesWin ==
    lpc = "loaded" =>
        \A pk \in FileKeys(source_file) :
            IF pk[2] = "client"
            THEN "client" \notin DOMAIN loaded[pk[1]]
            ELSE /\ pk[1] \in DOMAIN loaded
                 /\ pk[2] \in DOMAIN loaded[pk[1]]
                 /\ loaded[pk[1]][pk[2]] = source_file.data[pk[1]][pk[2]]

\* a load of a file that overrides a default with another value and holds
\* the legacy key
C21_Witness ==
    /\ lpc = "loaded"
    /\ <<"openai", "client">> \in FileKeys(source_file)
    /\ \E pk \in FileKeys(source_file) :
        /\ pk[1] \in DOMAIN DEFAULTS
        /\ pk[2] \in DOMAIN DEFAULTS[pk[1]]
        /\ pk[2] # "client"
        /\ DEFAULTS[pk[1]][pk[2]] # source_file.data[pk[1]][pk[2]]
        /\ loaded[pk[1]][pk[2]] = source_file.data[pk[1]][pk[2]]

\* C22: a configuration file that the object has written holds only keys
\* the user has set, never a key that is there only as a built-in default.
C22_FileHoldsOnlyOverrides ==
    (lpc \in {"loaded", "changed"} /\ cfg_file # source_file)
        => FileKeys(cfg_file) \subseteq user_set

\* the built-in defaults as a loaded configuration holds them
PrunedDefaults == [prov \in DOMAIN DEFAULTS |-> Pop(DEFAULTS[prov], "client")]

\* C23: constructing on a file that is missing or whose content is no
\* configuration does not raise, yields the built-in defaults and leaves a
\* file whose next load succeeds with the same result.
C23_BrokenFileHeals ==
    (lpc \in {"loaded", "raised"} /\ source_file.kind # "dict")
        => /\ lpc = "loaded"
           /\ load_raised = ""
           /\ loaded = PrunedDefaults
           /\ LoadRaises(cfg_file) = ""
           /\ LoadAndSync(cfg_file).providers = loaded

(***************************************************************************)
(* Properties of the ping command                                          *)
(***************************************************************************)
\* the servers a ping was sent to
PingedServers == { tasks[i].idx : i \in { k \in 1..Len(tasks) : tasks[k].state = "done" } }

\* the servers the call is to ping: all of them without targets, otherwise
\* those whose index or name, compared without case, equals a target
ExpectedServers ==
    IF targets = <<>> THEN 0..(streams - 1)
    ELSE { index \in 0..(streams - 1) :
            \E i \in 1..Len(targets) :
                \/ targets[i] = ToString(index)
                \/ Lower(targets[i]) =
                        Lower(DisplayServerName(index, server_names, server_infos)) }

\* C24: ping_action_async creates a ping for exactly the expected servers,
\* and when it has returned it has pinged exactly those, returning True if
\* and only if there was at least one; with no matching server nothing is
\* pinged and it returns False.
C24_PingSelection ==
    /\ ppc \in {"gathering", "done"}
        => { tasks[i].idx : i \in 1..Len(tasks) } = ExpectedServers
    /\ ppc = "done"
        => /\ PingedServers = ExpectedServers
           /\ ping_returned = (IF PingedServers # {} THEN "True" ELSE "False")

\* a call filtered by a name written in another case that pings one server
\* and leaves another one out
C24_Witness ==
    /\ ppc = "done"
    /\ ping_returned = "True"
    /\ streams = 2
    /\ targets = <<"SERVERB">>
    /\ PingedServers = {1}

\* C29: a ping that times out, raises or is answered with False is reported
\* as failed for its own server; ping_action_async does not raise, and
\* returns one result per created task that tells whether that task's own
\* ping was answered.
C29_PingsIndependent ==
    (ppc = "done" /\ tasks # <<>>)
        => /\ ping_returned = "True"
           /\ Len(ping_results) = Len(tasks)
           /\ \A i \in 1..Len(tasks) :
                /\ ping_results[i].name = tasks[i].name
                /\ ping_results[i].ok = (tasks[i].outcome = "pong")

\* a call in which one ping raised or timed out and the other was answered
C29_Witness ==
    /\ ppc = "done"
    /\ Len(ping_results) = 2
    /\ tasks[1].outcome \in {"timeout", "raise"}
    /\ ~ping_results[1].ok
    /\ tasks[2].outcome = "pong"
    /\ ping_results[2].ok

(***************************************************************************)
(* Properties of the client cache and of the provider names                *)
(***************************************************************************)
\* C25: get_client_for_provider leaves the active provider, the active
\* model and the cache of get_client as they were.
C25_ClientForProviderKeepsSelection ==
    [][(nops' = nops + 1 /\ last'.op = "get_client_for_provider")
        => /\ GetActiveProvider(providers') = GetActiveProvider(providers)
           /\ GetActiveModel(providers') = GetActiveModel(providers)
           /\ cached' = cached]_vars

\* a client for another provider was handed out while get_client holds a
\* cached client for the active pair
C25_Witness ==
    /\ last.op = "get_client_for_provider"
    /\ last.client.made
    /\ last.client.provider # GetActiveProvider(providers)
    /\ cached.client.made
    /\ cached.provider = GetActiveProvider(providers)
    /\ cached.client # last.client

\* C26: whatever switches came before, a get_client that returns hands out
\* a client created for the pair that is active now, and the cache holds a
\* client only under the pair it was created for.
C26_ClientMatchesActivePair ==
    /\ (last.op = "get_client" /\ mm_raised = "")
        => /\ last.client.made
           /\ last.client.provider = GetActiveProvider(providers)
           /\ last.client.model = GetActiveModel(providers)
    /\ cached.client.made
        => /\ cached.client.provider = cached.provider
           /\ cached.client.model = cached.model

\* the second client of a run, created by get_client for a pair that a
\* switch has made active
C26_Witness ==
    /\ last.op = "get_client"
    /\ last.env = "created"
    /\ last.val = ""
    /\ last.client.serial = 2
    /\ last.client.provider = "ollama"
    /\ GetActiveProvider(providers) = "ollama"

\* C27: the get_client that follows a configure_provider which updated a
\* provider's settings creates a new client.
C27_NewClientAfterConfigChange ==
    [][(/\ nops' = nops + 1
        /\ last'.op = "get_client"
        /\ mm_raised' = ""
        /\ last.op = "configure_provider"
        /\ last.env = "updated")
        => /\ last'.client.made
           /\ last'.client.serial = nclients + 1
           /\ nclients' = nclients + 1]_vars

\* the API key of the active provider was changed between two clients, and
\* the second get_client was not asked to refresh
C27_Witness ==
    /\ nops = 3
    /\ last.op = "get_client"
    /\ last.val = ""
    /\ last.client.serial = 2
    /\ last.client.provider = "openai"
    /\ cached.client = last.client
    /\ Get(providers["openai"], "api_key", PyNone) = "sk-2"

\* C28: validate_provider accepts exactly the names list_providers returns.
C28_ValidNamesAreListed ==
    mpc = "ready"
        => \A p \in ProviderNames :
            ValidateProvider(providers, p) <=> p \in ListProviders(providers)

\* the provider command reported the switch it was asked for
SwitchReported ==
    /\ last.op = "provider"
    /\ console # <<>>
    /\ console[Len(console)] =
            "[green]Switched to " \o last.provider \o "[/green] (model: "
                \o last.model \o ")"

\* C30: after a switch that was carried out and reported, the context holds
\* the active provider, the active model and a client created for them.
C30_ContextFollowsSwitch ==
    SwitchReported
        => /\ context.provider = GetActiveProvider(providers)
           /\ context.model = GetActiveModel(providers)
           /\ context.client.made
           /\ context.client.provider = context.provider
           /\ context.client.model = context.model

====
